---- MODULE Spec2Model ----
(***************************************************************************)
(* A model of fm_cp (src/src/fm_cp/__main__.py): the plain-text <-> XML    *)
(* converter for FileMaker script steps.                                   *)
(*                                                                         *)
(* Text is modelled as a sequence of tokens.  A token is either one        *)
(* significant character (" ", "[", "]", "(", ")", ";", the double quote,  *)
(* the backslash, "#", "&", the newline) or a run of characters none of    *)
(* which the code looks at individually (a keyword, an identifier, a       *)
(* number).  A step's raw_text is diagnostic only and is left out.         *)
(***************************************************************************)
EXTENDS Integers, Sequences, FiniteSets, TLC

VARIABLES
    pc,            \* position of the running function
    lines,         \* parse_text: the raw lines read so far
    parse_state,   \* parse_text: accumulator, start_line, depths, steps, errors
    steps,         \* list of ParsedStep
    block_stack,   \* validate_structure: the open blocks
    errors,        \* ValidationResult.errors
    warnings,      \* ValidationResult.warnings
    xml,           \* cmd_process: the string generate_xml returned
    written,       \* cmd_process: what went to the output file or clipboard
    reported,      \* cmd_process: the errors and warnings printed
    decoded,       \* the text decompile_xml returned
    reparsed       \* what parse_line makes of the decoded text

vars ==
    <<pc, lines, parse_state, steps, block_stack, errors, warnings,
      xml, written, reported, decoded, reparsed>>

output_vars == <<xml, written, reported, decoded, reparsed>>

parse_vars == <<lines, parse_state>>

validate_vars == <<block_stack, errors, warnings>>

(***************************************************************************)
(* Bounds                                                                  *)
(***************************************************************************)
MaxSteps == 5

MaxLines == 4

MaxContent == 3

MaxComments == 4

MaxButtons == 4

MaxNest == 4

MaxElems == 3

MaxBlock == 4

MaxSegment == 5

MaxChars == 4

(***************************************************************************)
(* ParsedStep                                                              *)
(***************************************************************************)
NoParams == <<>>

ParsedStep(step_type, params, line_num, enabled) ==
    [step_type |-> step_type, params |-> params,
     line_num |-> line_num, enabled |-> enabled]

(***************************************************************************)
(* Text primitives                                                         *)
(***************************************************************************)
\* str.strip() / \s : the whitespace tokens
IsSpace(t) == t \in {" ", "\n"}

AllSpace(s) == \A k \in 1..Len(s) : IsSpace(s[k])

\* str.strip()
strip(s) ==
    IF AllSpace(s) THEN <<>>
    ELSE LET first == CHOOSE k \in 1..Len(s) :
                         ~IsSpace(s[k]) /\ \A j \in 1..(k - 1) : IsSpace(s[j])
             last == CHOOSE k \in 1..Len(s) :
                         ~IsSpace(s[k]) /\ \A j \in (k + 1)..Len(s) : IsSpace(s[j])
         IN  SubSeq(s, first, last)

lstrip(s) ==
    IF AllSpace(s) THEN <<>>
    ELSE LET first == CHOOSE k \in 1..Len(s) :
                         ~IsSpace(s[k]) /\ \A j \in 1..(k - 1) : IsSpace(s[j])
         IN  SubSeq(s, first, Len(s))

rstrip(s) ==
    IF AllSpace(s) THEN <<>>
    ELSE LET last == CHOOSE k \in 1..Len(s) :
                         ~IsSpace(s[k]) /\ \A j \in (k + 1)..Len(s) : IsSpace(s[j])
         IN  SubSeq(s, 1, last)

\* str.lower() on a token, and hence what re.IGNORECASE compares
Lower(t) ==
    CASE t \in {"If", "IF"} -> "if"
      [] t = "End If" -> "end if"
      [] t = "Else" -> "else"
      [] t = "Else If" -> "else if"
      [] t = "Loop" -> "loop"
      [] t = "End Loop" -> "end loop"
      [] t = "Exit Loop If" -> "exit loop if"
      [] t = "Set Error Capture" -> "set error capture"
      [] t = "Allow User Abort" -> "allow user abort"
      [] t = "Set Variable" -> "set variable"
      [] t = "Set Field By Name" -> "set field by name"
      [] t = "Set Field" -> "set field"
      [] t = "Show Custom Dialog" -> "show custom dialog"
      [] t = "Exit Script" -> "exit script"
      [] t = "Commit Records" -> "commit records"
      [] t = "Commit Records/Requests" -> "commit records/requests"
      [] t = "Perform Script" -> "perform script"
      [] t = "Go to Layout" -> "go to layout"
      [] t = "Insert from URL" -> "insert from url"
      [] t = "New Record" -> "new record"
      [] t = "New Record/Request" -> "new record/request"
      [] t = "Enter Find Mode" -> "enter find mode"
      [] t = "Perform Find" -> "perform find"
      [] t = "Go to Record" -> "go to record"
      [] t = "Go to Record/Request/Page" -> "go to record/request/page"
      [] t = "Sort Records" -> "sort records"
      [] t \in {"On", "ON"} -> "on"
      [] t = "Off" -> "off"
      [] t = "First" -> "first"
      [] t = "Last" -> "last"
      [] t = "Next" -> "next"
      [] t = "Previous" -> "previous"
      [] t = "Value:" -> "value:"
      [] t = "Target:" -> "target:"
      [] t = "URL:" -> "url:"
      [] t = "cURL:" -> "curl:"
      [] t = "cURLoptions:" -> "curloptions:"
      [] t = "No dialog" -> "no dialog"
      [] t = "Pause" -> "pause"
      [] t = "Bogus" -> "bogus"
      [] t = "T::F" -> "t::f"
      [] OTHER -> t

\* str.capitalize() on the tokens it is applied to (On/Off, First/Last/...)
Capitalize(t) ==
    CASE Lower(t) = "on" -> "On"
      [] Lower(t) = "off" -> "Off"
      [] Lower(t) = "first" -> "First"
      [] Lower(t) = "last" -> "Last"
      [] Lower(t) = "next" -> "Next"
      [] Lower(t) = "previous" -> "Previous"
      [] OTHER -> t

\* \${1,2}[\w.]+ : the tokens that are variable names
IsVarName(t) == t \in {"$x", "$$g", "$r"}

\* 'no dialog' in opts.lower() or 'skip' in opts.lower()
HasNoDialog(s) == \E k \in 1..Len(s) : Lower(s[k]) \in {"no dialog", "skip"}

\* 'pause' in pause.lower()
HasPause(s) == \E k \in 1..Len(s) : Lower(s[k]) = "pause"

\* ' '.join(parts) and the like: the parts with sep between them
RECURSIVE Join(_, _)
Join(parts, sep) ==
    IF Len(parts) = 0 THEN <<>>
    ELSE IF Len(parts) = 1 THEN parts[1]
    ELSE parts[1] \o sep \o Join(Tail(parts), sep)

\* str.split(sep) for a one-token separator
RECURSIVE SplitOn(_, _, _, _)
SplitOn(s, sep, k, current) ==
    IF k > Len(s) THEN <<current>>
    ELSE IF s[k] = sep THEN <<current>> \o SplitOn(s, sep, k + 1, <<>>)
    ELSE SplitOn(s, sep, k + 1, Append(current, s[k]))

Split(s, sep) == SplitOn(s, sep, 1, <<>>)

(***************************************************************************)
(* _count_delimiters and _split_params                                     *)
(***************************************************************************)
\* The loop of _count_delimiters from token k on; d = <<paren, bracket>>.
RECURSIVE count_from(_, _, _, _, _)
count_from(text, k, d, in_quote, escape) ==
    IF k > Len(text) THEN d
    ELSE LET ch == text[k]
         IN  IF escape THEN count_from(text, k + 1, d, in_quote, FALSE)
             ELSE IF ch = "\\" THEN count_from(text, k + 1, d, in_quote, TRUE)
             ELSE IF ch = "\"" THEN count_from(text, k + 1, d, ~in_quote, FALSE)
             ELSE IF in_quote THEN count_from(text, k + 1, d, in_quote, FALSE)
             ELSE IF ch = "(" THEN count_from(text, k + 1, <<d[1] + 1, d[2]>>, in_quote, FALSE)
             ELSE IF ch = ")" THEN count_from(text, k + 1, <<d[1] - 1, d[2]>>, in_quote, FALSE)
             ELSE IF ch = "[" THEN count_from(text, k + 1, <<d[1], d[2] + 1>>, in_quote, FALSE)
             ELSE IF ch = "]" THEN count_from(text, k + 1, <<d[1], d[2] - 1>>, in_quote, FALSE)
             ELSE count_from(text, k + 1, d, in_quote, FALSE)

_count_delimiters(text) == count_from(text, 1, <<0, 0>>, FALSE, FALSE)

\* The loop of _split_params from token k on.
\* st = [parts, current, depth_paren, depth_bracket, in_quote, escape]
RECURSIVE split_from(_, _, _)
split_from(s, k, st) ==
    IF k > Len(s) THEN st
    ELSE LET ch == s[k]
             keep == [st EXCEPT !.current = Append(st.current, ch)]
         IN  IF st.escape
             THEN split_from(s, k + 1, [keep EXCEPT !.escape = FALSE])
             ELSE IF ch = "\\"
             THEN split_from(s, k + 1, [keep EXCEPT !.escape = TRUE])
             ELSE IF ch = "\"" /\ st.depth_paren = 0
             THEN split_from(s, k + 1, [keep EXCEPT !.in_quote = ~st.in_quote])
             ELSE IF st.in_quote
             THEN split_from(s, k + 1, keep)
             ELSE IF ch = "("
             THEN split_from(s, k + 1, [keep EXCEPT !.depth_paren = st.depth_paren + 1])
             ELSE IF ch = ")"
             THEN split_from(s, k + 1, [keep EXCEPT !.depth_paren = st.depth_paren - 1])
             ELSE IF ch = "["
             THEN split_from(s, k + 1, [keep EXCEPT !.depth_bracket = st.depth_bracket + 1])
             ELSE IF ch = "]"
             THEN split_from(s, k + 1, [keep EXCEPT !.depth_bracket = st.depth_bracket - 1])
             ELSE IF ch = ";" /\ st.depth_paren = 0 /\ st.depth_bracket = 0
             THEN split_from(s, k + 1, [st EXCEPT !.parts = Append(st.parts, st.current),
                                                  !.current = <<>>])
             ELSE split_from(s, k + 1, keep)

split_scan(s) ==
    split_from(s, 1, [parts |-> <<>>, current |-> <<>>, depth_paren |-> 0,
                      depth_bracket |-> 0, in_quote |-> FALSE, escape |-> FALSE])

_split_params(s) ==
    LET st == split_scan(s)
    IN  IF st.current # <<>> THEN Append(st.parts, st.current) ELSE st.parts

(***************************************************************************)
(* STAGE 1: parse_line.  The regular expressions are applied to the        *)
(* stripped line, whose first token is the keyword.                        *)
(***************************************************************************)
NoMatch == [matched |-> FALSE]

\* What lies between the "[" that follows \s* and the "]" that ends the
\* line: the part of a pattern  \s*\[ ... \]$ .
BracketedAt(r) ==
    IF Len(r) >= 2 /\ r[1] = "[" /\ r[Len(r)] = "]"
    THEN [matched |-> TRUE, inner |-> SubSeq(r, 2, Len(r) - 1)]
    ELSE NoMatch

Bracketed(rest) == BracketedAt(lstrip(rest))

\* (.+?)\s*$ after a greedy \s* : the text without the surrounding
\* whitespace, or one whitespace character when there is nothing else
LazyGroup(c) == IF AllSpace(c) THEN <<c[Len(c)]>> ELSE strip(c)

\* \s*\[\s*(.+?)\s*\]$
OneGroupIn(b) ==
    IF b.matched /\ Len(b.inner) > 0
    THEN [matched |-> TRUE, g1 |-> LazyGroup(b.inner)]
    ELSE NoMatch

OneGroup(rest) == OneGroupIn(Bracketed(rest))

\* \s*(?:\[\s*(.*?)\s*\])?$ : group 1 or '' (m.group(1) or '')
OptGroupIn(rest, b) ==
    IF Len(rest) = 0 THEN [matched |-> TRUE, g1 |-> <<>>]
    ELSE IF b.matched THEN [matched |-> TRUE, g1 |-> strip(b.inner)]
    ELSE NoMatch

OptGroup(rest) == OptGroupIn(rest, Bracketed(rest))

\* \s*\[\s*(.+?)\s*;\s*(.+?)\s*\]$ : the lazy first group ends at the first
\* semicolon that leaves something for the second group.
\* The first semicolon of c that has something on both sides, or 0
FirstSemicolon(c) ==
    IF \E j \in 2..(Len(c) - 1) : c[j] = ";"
    THEN CHOOSE j \in 2..(Len(c) - 1) :
             c[j] = ";" /\ \A y \in 2..(j - 1) : c[y] # ";"
    ELSE 0

\* b is the bracketed part, c what follows the \s* after "[", j the
\* semicolon at which the first group ends
TwoGroupsIn(b, c, j) ==
    IF ~b.matched THEN NoMatch
    ELSE IF j > 0
    THEN [matched |-> TRUE, g1 |-> rstrip(SubSeq(c, 1, j - 1)),
          g2 |-> LazyGroup(SubSeq(c, j + 1, Len(c)))]
    ELSE IF Len(c) >= 2 /\ c[1] = ";" /\ Len(c) < Len(b.inner)
    THEN [matched |-> TRUE, g1 |-> <<" ">>,
          g2 |-> LazyGroup(SubSeq(c, 2, Len(c)))]
    ELSE NoMatch

TwoGroupsAt(b, c) == TwoGroupsIn(b, c, FirstSemicolon(c))

TwoGroupsOf(b) == TwoGroupsAt(b, IF b.matched THEN lstrip(b.inner) ELSE <<>>)

TwoGroups(rest) == TwoGroupsOf(Bracketed(rest))

\* \s*\[\s*(\${1,2}[\w.]+)\s*;\s*Value:\s*(.+?)\s*\]$
\* What follows the first token of c and the whitespace after it
After(c) == IF Len(c) >= 1 THEN lstrip(Tail(c)) ELSE <<>>

\* c begins at the name, c2 at the semicolon, c3 at "Value:"
NameValueGroupsIn(b, c, c2, c3) ==
    IF /\ b.matched
       /\ Len(c) >= 1 /\ IsVarName(c[1])
       /\ Len(c2) >= 1 /\ c2[1] = ";"
       /\ Len(c3) >= 2 /\ Lower(c3[1]) = "value:"
    THEN [matched |-> TRUE, g1 |-> <<c[1]>>, g2 |-> LazyGroup(Tail(c3))]
    ELSE NoMatch

NameValueGroupsAt(b, c) == NameValueGroupsIn(b, c, After(c), After(After(c)))

NameValueGroupsOf(b) ==
    NameValueGroupsAt(b, IF b.matched THEN lstrip(b.inner) ELSE <<>>)

NameValueGroups(rest) == NameValueGroupsOf(Bracketed(rest))

\* \s*\[\s*(w1|w2|...)\s*\]$ with re.IGNORECASE
WordGroupIn(b, c, words) ==
    IF b.matched /\ Len(c) = 1 /\ Lower(c[1]) \in words
    THEN [matched |-> TRUE, g1 |-> c[1]]
    ELSE NoMatch

WordGroupOf(b, words) ==
    WordGroupIn(b, IF b.matched THEN strip(b.inner) ELSE <<>>, words)

WordGroup(rest, words) == WordGroupOf(Bracketed(rest), words)

\* The three results of parse_line: None, a ParsedStep, an error string
NoStep == [kind |-> "none"]

AStep(step) == [kind |-> "step", step |-> step]

IsStep(r) == r.kind = "step"

\* f"Line {line_num}: Unrecognized step: {stripped}"
Unrecognized(line_num, stripped) ==
    [kind |-> "error",
     error |-> [line |-> line_num, msg |-> "Unrecognized step", text |-> stripped]]

\* [p.strip() for p in parts]
StripAll(parts) == [k \in 1..Len(parts) |-> strip(parts[k])]

\* One part q of Insert from URL, with its label when it has one
url_param_labelled(q, label, params) ==
    IF label = "target:" THEN ("target" :> strip(Tail(q))) @@ params
    ELSE IF label = "url:" THEN ("url" :> strip(Tail(q))) @@ params
    ELSE IF label \in {"curl:", "curloptions:"} THEN ("curl" :> strip(Tail(q))) @@ params
    ELSE IF "target" \notin DOMAIN params THEN ("target" :> q) @@ params
    ELSE IF "url" \notin DOMAIN params THEN ("url" :> q) @@ params
    ELSE params

url_param(q, params) ==
    url_param_labelled(q, IF Len(q) > 0 THEN Lower(q[1]) ELSE "", params)

\* The loop over the parts of Insert from URL
RECURSIVE url_params(_, _, _)
url_params(parts, k, params) ==
    IF k > Len(parts) THEN params
    ELSE url_params(parts, k + 1, url_param(strip(parts[k]), params))

\* The params of Show Custom Dialog from the split parts
dialog_params(parts) ==
    [title |-> IF Len(parts) > 0 THEN strip(parts[1]) ELSE <<"\"", "\"">>,
     message |-> IF Len(parts) > 1 THEN strip(parts[2]) ELSE <<"\"", "\"">>,
     buttons |-> IF Len(parts) > 2 THEN StripAll(SubSeq(parts, 3, Len(parts)))
                 ELSE << <<"\"", "OK", "\"">> >>]

\* The params of Perform Script from the split parts
script_params(parts) ==
    [script_name |-> strip(parts[1]),
     parameter |-> IF Len(parts) > 1 THEN strip(parts[2]) ELSE <<>>]

\* parse_line below the comment test: the regular expressions, in order.
\* kw is the keyword, b the bracketed part of what follows it, and one,
\* two, opt, nv, onoff, dir the matches of the patterns on it.
match_keyword(stripped, line_num, kw, bare, b, one, two, opt, nv, onoff, dir) ==
    LET step(type, params) == AStep(ParsedStep(type, params, line_num, TRUE))
        bad == Unrecognized(line_num, stripped)
    IN  CASE kw = "set error capture" ->
               IF onoff.matched
               THEN step("set_error_capture", [state |-> <<Capitalize(onoff.g1)>>])
               ELSE bad
          [] kw = "allow user abort" ->
               IF onoff.matched
               THEN step("allow_user_abort", [state |-> <<Capitalize(onoff.g1)>>])
               ELSE bad
          [] kw = "set variable" ->
               IF nv.matched
               THEN step("set_variable", [name |-> nv.g1, value |-> nv.g2])
               ELSE bad
          [] kw = "set field by name" ->
               IF two.matched
               THEN step("set_field_by_name", [target |-> two.g1, value |-> two.g2])
               ELSE bad
          [] kw = "set field" ->
               IF two.matched
               THEN step("set_field", [field |-> two.g1, value |-> two.g2])
               ELSE bad
          [] kw = "if" ->
               IF one.matched THEN step("if", [calc |-> one.g1]) ELSE bad
          [] kw = "else if" ->
               IF one.matched THEN step("else_if", [calc |-> one.g1]) ELSE bad
          [] kw = "else" -> IF bare THEN step("else", NoParams) ELSE bad
          [] kw = "end if" -> IF bare THEN step("end_if", NoParams) ELSE bad
          [] kw = "loop" -> IF bare THEN step("loop", NoParams) ELSE bad
          [] kw = "exit loop if" ->
               IF one.matched THEN step("exit_loop_if", [calc |-> one.g1]) ELSE bad
          [] kw = "end loop" -> IF bare THEN step("end_loop", NoParams) ELSE bad
          [] kw = "show custom dialog" ->
               IF one.matched
               THEN step("show_custom_dialog", dialog_params(_split_params(one.g1)))
               ELSE bad
          [] kw = "exit script" ->
               IF one.matched THEN step("exit_script", [result |-> one.g1])
               ELSE IF bare THEN step("exit_script", [result |-> <<>>])
               ELSE bad
          [] kw \in {"commit records", "commit records/requests"} ->
               IF opt.matched
               THEN step("commit_records", [no_dialog |-> HasNoDialog(opt.g1)])
               ELSE bad
          [] kw = "perform script" ->
               IF one.matched
               THEN step("perform_script", script_params(_split_params(one.g1)))
               ELSE bad
          [] kw = "go to layout" ->
               IF one.matched THEN step("go_to_layout", [layout |-> strip(one.g1)])
               ELSE bad
          [] kw = "insert from url" ->
               IF one.matched
               THEN step("insert_from_url", url_params(_split_params(one.g1), 1, NoParams))
               ELSE bad
          [] kw \in {"new record", "new record/request"} ->
               IF bare THEN step("new_record", NoParams) ELSE bad
          [] kw = "enter find mode" ->
               IF opt.matched
               THEN step("enter_find_mode", [pause |-> HasPause(opt.g1)])
               ELSE bad
          [] kw = "perform find" ->
               IF bare \/ (b.matched /\ AllSpace(b.inner))
               THEN step("perform_find", NoParams)
               ELSE bad
          [] kw \in {"go to record", "go to record/request/page"} ->
               IF dir.matched
               THEN step("go_to_record", [direction |-> <<Capitalize(dir.g1)>>])
               ELSE bad
          [] kw = "sort records" ->
               IF opt.matched THEN step("sort_records", NoParams) ELSE bad
          [] OTHER -> bad

match_patterns(stripped, line_num, rest, b) ==
    match_keyword(stripped, line_num, Lower(stripped[1]), Len(rest) = 0, b,
                  OneGroupIn(b), TwoGroupsOf(b), OptGroupIn(rest, b),
                  NameValueGroupsOf(b), WordGroupOf(b, {"on", "off"}),
                  WordGroupOf(b, {"first", "last", "next", "previous"}))

parse_keyword(stripped, line_num) ==
    match_patterns(stripped, line_num, Tail(stripped), Bracketed(Tail(stripped)))

\* parse_line on an already stripped, non-blank line without // prefix
parse_plain(stripped, line_num) ==
    IF stripped[1] = "#"
    THEN AStep(ParsedStep("comment", [text |-> strip(Tail(stripped))], line_num, TRUE))
    ELSE parse_keyword(stripped, line_num)

\* result.enabled = False when the result is a ParsedStep
\* Disabled that leaves the step enabled
Disabled_leaving_enabled(result) == result

Disabled(result) ==
    IF IsStep(result)
    THEN [result EXCEPT !.step.enabled = FALSE]
    ELSE result

RECURSIVE parse_stripped(_, _)
\* The body of the "// " branch, inner being the text behind the prefix
parse_disabled(inner, line_num) ==
    IF Len(inner) = 0 THEN NoStep
    ELSE Disabled(parse_stripped(inner, line_num))

\* parse_line after stripped = line.strip(); the recursive call strips
\* text that is stripped already
parse_stripped(stripped, line_num) ==
    IF Len(stripped) = 0 THEN NoStep
    ELSE IF Len(stripped) >= 2 /\ stripped[1] = "//" /\ stripped[2] = " "
    THEN parse_disabled(strip(SubSeq(stripped, 3, Len(stripped))), line_num)
    ELSE parse_plain(stripped, line_num)

parse_line(line, line_num) == parse_stripped(strip(line), line_num)

(***************************************************************************)
(* STAGE 1: parse_text.  Its locals are kept in a record                   *)
(* [accumulator, start_line, paren_depth, bracket_depth, steps, errors].   *)
(***************************************************************************)
ParseStart ==
    [accumulator |-> <<>>, start_line |-> 0, paren_depth |-> 0,
     bracket_depth |-> 0, steps |-> <<>>, errors |-> <<>>]

\* [l.strip() for l in accumulator if l.strip()]
RECURSIVE StrippedNonBlank(_)
StrippedNonBlank(acc) ==
    IF Len(acc) = 0 THEN <<>>
    ELSE IF Len(strip(acc[1])) = 0 THEN StrippedNonBlank(Tail(acc))
    ELSE <<strip(acc[1])>> \o StrippedNonBlank(Tail(acc))

\* ' '.join(...) of the accumulated lines
Logical(acc) == Join(StrippedNonBlank(acc), <<" ">>)

\* The branches of _flush on the result of parse_line, st being the state
\* with the accumulator cleared
flush_result(st, result) ==
    CASE result.kind = "none" -> st
      [] result.kind = "error" -> [st EXCEPT !.errors = Append(st.errors, result.error)]
      [] OTHER -> [st EXCEPT !.steps = Append(st.steps, result.step)]

\* _flush that keeps the running depths
flush_keeping_depths(st) ==
    IF Len(st.accumulator) = 0 THEN st
    ELSE flush_result([st EXCEPT !.accumulator = <<>>],
                      parse_line(Logical(st.accumulator), st.start_line))

\* _flush
flush(st) ==
    IF Len(st.accumulator) = 0 THEN st
    ELSE flush_result([st EXCEPT !.accumulator = <<>>,
                                 !.paren_depth = 0, !.bracket_depth = 0],
                      parse_line(Logical(st.accumulator), st.start_line))

\* read_line that takes the line that closes a statement as its line number
read_line_numbering_last(st, i, line) ==
    LET stripped == strip(line)
        d == _count_delimiters(stripped)
        added == [st EXCEPT !.accumulator = Append(st.accumulator, line),
                            !.start_line = i,
                            !.paren_depth = st.paren_depth + d[1],
                            !.bracket_depth = st.bracket_depth + d[2]]
    IN  IF Len(st.accumulator) = 0 /\ Len(stripped) = 0 THEN st
        ELSE IF added.paren_depth <= 0 /\ added.bracket_depth <= 0
        THEN flush(added)
        ELSE added

\* One iteration of the for loop of parse_text, on raw line number i.
read_line(st, i, line) ==
    LET stripped == strip(line)
        d == _count_delimiters(stripped)
        added == [st EXCEPT !.accumulator = Append(st.accumulator, line),
                            !.start_line =
                                IF Len(st.accumulator) = 0 THEN i ELSE st.start_line,
                            !.paren_depth = st.paren_depth + d[1],
                            !.bracket_depth = st.bracket_depth + d[2]]
    IN  IF Len(st.accumulator) = 0 /\ Len(stripped) = 0 THEN st
        ELSE IF added.paren_depth <= 0 /\ added.bracket_depth <= 0
        THEN flush(added)
        ELSE added

RECURSIVE merge_from_any_enabled(_, _, _)
\* The loop of _merge_comments without the comparison of the enabled states
merge_from_any_enabled(ss, k, merged) ==
    IF k > Len(ss) THEN merged
    ELSE IF ss[k].step_type = "comment" /\ merged[Len(merged)].step_type = "comment"
    THEN merge_from_any_enabled(ss, k + 1,
             [merged EXCEPT ![Len(merged)].params.text =
                 merged[Len(merged)].params.text \o <<"\n">> \o ss[k].params.text])
    ELSE merge_from_any_enabled(ss, k + 1, Append(merged, ss[k]))

\* The loop of _merge_comments over steps[k..], merged being non-empty.
RECURSIVE merge_from(_, _, _)
merge_from(ss, k, merged) ==
    IF k > Len(ss) THEN merged
    ELSE LET step == ss[k]
             prev == merged[Len(merged)]
         IN  IF /\ step.step_type = "comment" /\ prev.step_type = "comment"
                /\ step.enabled = prev.enabled
             THEN merge_from(ss, k + 1,
                     [merged EXCEPT ![Len(merged)].params.text =
                         prev.params.text \o <<"\n">> \o step.params.text])
             ELSE merge_from(ss, k + 1, Append(merged, step))

\* _merge_comments that merges nothing
_merge_comments_none(ss) == ss

_merge_comments(ss) ==
    IF Len(ss) = 0 THEN ss ELSE merge_from(ss, 2, <<ss[1]>>)

\* steps = _merge_comments(steps)
with_merged_comments(st) == [st EXCEPT !.steps = _merge_comments(st.steps)]

\* The end of parse_text: the flush at end of input, then _merge_comments.
parse_finish(st) == with_merged_comments(flush(st))

\* The for loop of parse_text over lines[k..]
RECURSIVE parse_lines(_, _, _)
parse_lines(ls, k, st) ==
    IF k > Len(ls) THEN st
    ELSE parse_lines(ls, k + 1, read_line(st, k, ls[k]))

\* parse_text(text): (steps, errors)
parse_text(text) ==
    LET st == parse_finish(parse_lines(Split(text, "\n"), 1, ParseStart))
    IN  [steps |-> st.steps, errors |-> st.errors]

(***************************************************************************)
(* STAGE 2: structural validator                                           *)
(***************************************************************************)
\* str.title() on the two block types the stack can hold
Title(block_type) ==
    IF block_type = "if" THEN "If" ELSE "Loop"

\* ValidationResult.add_error: f"Line {line_num}: ERROR - {message}".  The
\* message is kept as its fixed text plus the two values some messages
\* interpolate (the open block's title and its opening line).
add_error(errs, line_num, message, block, opened) ==
    Append(errs, [line |-> line_num, level |-> "ERROR", msg |-> message,
                  block |-> block, opened |-> opened])

add_warning(warns, line_num, message) ==
    Append(warns, [line |-> line_num, level |-> "WARN", msg |-> message])

\* is_valid that looks at nothing
is_valid_always(errs) == TRUE

is_valid(errs) == Len(errs) = 0

BlockFrame(type, line, has_else) ==
    [type |-> type, line |-> line, has_else |-> has_else]

Top(stack) == stack[Len(stack)]

Pop(stack) == SubSeq(stack, 1, Len(stack) - 1)

\* in_loop that looks at the top frame only
in_loop_top_only(stack) == Len(stack) > 0 /\ stack[Len(stack)].type = "loop"

\* any(b[0] == 'loop' for b in block_stack)
in_loop(stack) == \E k \in 1..Len(stack) : stack[k].type = "loop"

\* The branches of the for loop of validate_structure.  Each gives the block
\* stack and the error list after a step of its kind on line ln.
Outcome(stack, errs) == [stack |-> stack, errors |-> errs]

validate_if(ln, stack, errs) ==
    Outcome(Append(stack, BlockFrame("if", ln, FALSE)), errs)

\* validate_else_if without the has_else test
validate_else_if_no_else_check(ln, stack, errs) ==
    IF Len(stack) = 0 \/ Top(stack).type # "if"
    THEN Outcome(stack, add_error(errs, ln, "Else If without matching If", "", 0))
    ELSE Outcome(stack, errs)

validate_else_if(ln, stack, errs) ==
    IF Len(stack) = 0 \/ Top(stack).type # "if"
    THEN Outcome(stack, add_error(errs, ln, "Else If without matching If", "", 0))
    ELSE IF Top(stack).has_else
    THEN Outcome(stack, add_error(errs, ln,
                    "Else If after Else (must come before Else)", "", 0))
    ELSE Outcome(stack, errs)

\* validate_else that does not record the Else on the frame
validate_else_unmarked(ln, stack, errs) ==
    IF Len(stack) = 0 \/ Top(stack).type # "if"
    THEN Outcome(stack, add_error(errs, ln, "Else without matching If", "", 0))
    ELSE IF Top(stack).has_else
    THEN Outcome(stack, add_error(errs, ln,
                    "Duplicate Else - only one Else per If block", "", 0))
    ELSE Outcome(stack, errs)

validate_else(ln, stack, errs) ==
    IF Len(stack) = 0 \/ Top(stack).type # "if"
    THEN Outcome(stack, add_error(errs, ln, "Else without matching If", "", 0))
    ELSE IF Top(stack).has_else
    THEN Outcome(stack, add_error(errs, ln,
                    "Duplicate Else - only one Else per If block", "", 0))
    ELSE Outcome([stack EXCEPT ![Len(stack)] =
                     BlockFrame("if", Top(stack).line, TRUE)], errs)

\* validate_end_if that tests only for an empty stack
validate_end_if_any_top(ln, stack, errs) ==
    IF Len(stack) = 0
    THEN Outcome(stack, add_error(errs, ln, "Orphan End If - no matching If", "", 0))
    ELSE Outcome(Pop(stack), errs)

validate_end_if(ln, stack, errs) ==
    IF Len(stack) = 0
    THEN Outcome(stack, add_error(errs, ln, "Orphan End If - no matching If", "", 0))
    ELSE IF Top(stack).type # "if"
    THEN Outcome(stack, add_error(errs, ln, "End If found but current open block is",
                                  Title(Top(stack).type), Top(stack).line))
    ELSE Outcome(Pop(stack), errs)

validate_loop(ln, stack, errs) ==
    Outcome(Append(stack, BlockFrame("loop", ln, FALSE)), errs)

validate_exit_loop_if(ln, stack, errs) ==
    IF ~in_loop(stack)
    THEN Outcome(stack, add_error(errs, ln, "Exit Loop If outside of any Loop", "", 0))
    ELSE Outcome(stack, errs)

\* validate_end_loop that closes the open block after reporting the mismatch
validate_end_loop_closing(ln, stack, errs) ==
    IF Len(stack) = 0
    THEN Outcome(stack, add_error(errs, ln, "Orphan End Loop - no matching Loop", "", 0))
    ELSE IF Top(stack).type # "loop"
    THEN Outcome(Pop(stack),
                 add_error(errs, ln, "End Loop found but current open block is",
                           Title(Top(stack).type), Top(stack).line))
    ELSE Outcome(Pop(stack), errs)

validate_end_loop(ln, stack, errs) ==
    IF Len(stack) = 0
    THEN Outcome(stack, add_error(errs, ln, "Orphan End Loop - no matching Loop", "", 0))
    ELSE IF Top(stack).type # "loop"
    THEN Outcome(stack, add_error(errs, ln, "End Loop found but current open block is",
                                  Title(Top(stack).type), Top(stack).line))
    ELSE Outcome(Pop(stack), errs)

\* One iteration of the for loop of validate_structure.
validate_step(step, stack, errs) ==
    LET st == step.step_type
        ln == step.line_num
    IN  CASE st = "if"           -> validate_if(ln, stack, errs)
          [] st = "else_if"      -> validate_else_if(ln, stack, errs)
          [] st = "else"         -> validate_else(ln, stack, errs)
          [] st = "end_if"       -> validate_end_if(ln, stack, errs)
          [] st = "loop"         -> validate_loop(ln, stack, errs)
          [] st = "exit_loop_if" -> validate_exit_loop_if(ln, stack, errs)
          [] st = "end_loop"     -> validate_end_loop(ln, stack, errs)
          [] OTHER               -> Outcome(stack, errs)

\* unclosed_errors that reports the innermost open block only
unclosed_errors_innermost(stack, k, errs) ==
    IF Len(stack) = 0 THEN errs
    ELSE add_error(errs, Top(stack).line, "Unclosed - missing End",
                   Title(Top(stack).type), 0)

\* The "check for unclosed blocks" loop: one error per frame, bottom to top.
RECURSIVE unclosed_errors(_, _, _)
unclosed_errors(stack, k, errs) ==
    IF k > Len(stack) THEN errs
    ELSE unclosed_errors(stack, k + 1,
            add_error(errs, stack[k].line, "Unclosed - missing End",
                      Title(stack[k].type), 0))

\* validate_structure without its advisory
step_count_warnings_none(ss, warns) == warns

\* The advisory at the end of validate_structure
step_count_warnings(ss, warns) ==
    IF Len(ss) = 0
    THEN add_warning(warns, 0, "No steps found - is the input empty?")
    ELSE warns

\* The for loop of validate_structure from step k on
RECURSIVE validate_from(_, _, _, _)
validate_from(ss, k, stack, errs) ==
    IF k > Len(ss) THEN Outcome(stack, errs)
    ELSE LET r == validate_step(ss[k], stack, errs)
         IN  validate_from(ss, k + 1, r.stack, r.errors)

\* validate_structure(steps): the ValidationResult
validate_structure(ss) ==
    LET r == validate_from(ss, 1, <<>>, <<>>)
    IN  [errors |-> unclosed_errors(r.stack, 1, r.errors),
         warnings |-> step_count_warnings(ss, <<>>)]

(***************************************************************************)
(* STAGE 3: XML generator.  The XML string is modelled by its element      *)
(* tree, with every text and attribute value kept as written into the      *)
(* string (raw): what a parser makes of it is XmlParse below.              *)
(***************************************************************************)
\* STEP_DEFS
STEP_DEFS ==
    [comment |-> [id |-> "89", name |-> <<"#", " ", "(", "comment", ")">>],
     set_error_capture |-> [id |-> "86", name |-> <<"Set Error Capture">>],
     allow_user_abort |-> [id |-> "85", name |-> <<"Allow User Abort">>],
     set_variable |-> [id |-> "141", name |-> <<"Set Variable">>],
     set_field_by_name |-> [id |-> "147", name |-> <<"Set Field By Name">>],
     set_field |-> [id |-> "125", name |-> <<"Set Field">>],
     if |-> [id |-> "68", name |-> <<"If">>],
     else_if |-> [id |-> "125", name |-> <<"Else If">>],
     else |-> [id |-> "69", name |-> <<"Else">>],
     end_if |-> [id |-> "70", name |-> <<"End If">>],
     loop |-> [id |-> "71", name |-> <<"Loop">>],
     exit_loop_if |-> [id |-> "72", name |-> <<"Exit Loop If">>],
     end_loop |-> [id |-> "73", name |-> <<"End Loop">>],
     show_custom_dialog |-> [id |-> "87", name |-> <<"Show Custom Dialog">>],
     exit_script |-> [id |-> "103", name |-> <<"Exit Script">>],
     commit_records |-> [id |-> "75", name |-> <<"Commit Records/Requests">>],
     insert_from_url |-> [id |-> "160", name |-> <<"Insert from URL">>],
     perform_script |-> [id |-> "1", name |-> <<"Perform Script">>],
     go_to_layout |-> [id |-> "6", name |-> <<"Go to Layout">>],
     go_to_record |-> [id |-> "16", name |-> <<"Go to Record/Request/Page">>],
     new_record |-> [id |-> "7", name |-> <<"New Record/Request">>],
     enter_find_mode |-> [id |-> "22", name |-> <<"Enter Find Mode">>],
     perform_find |-> [id |-> "28", name |-> <<"Perform Find">>],
     sort_records |-> [id |-> "39", name |-> <<"Sort Records">>]]

\* An element: <tag attrs>text kids</tag>; text is CDATA when cdata.
El(tag, attrs, text, cdata, kids) ==
    [tag |-> tag, attrs |-> attrs, text |-> text, cdata |-> cdata, kids |-> kids]

At(n, v) == [n |-> n, v |-> v]

Leaf(tag, attrs) == El(tag, attrs, <<>>, FALSE, <<>>)

\* _cdata inside <Calculation>...</Calculation>
Calculation(value) == El("Calculation", <<>>, value, TRUE, <<>>)

\* <tag><Calculation><![CDATA[value]]></Calculation></tag>
WithCalc(tag, value) == El(tag, <<>>, <<>>, FALSE, <<Calculation(value)>>)

State(tag, val) == Leaf(tag, <<At("state", <<val>>)>>)

\* <Step enable="True" id=... name=...>kids</Step>
StepEl(id, name, kids) ==
    El("Step", <<At("enable", <<"True">>), At("id", <<id>>), At("name", name)>>,
       <<>>, FALSE, kids)

\* <!-- Unknown step: st -->
UnknownStep(st) == El("!--", <<>>, <<"Unknown step:", " ", st>>, FALSE, <<>>)

\* p.get(key, default)
Get(params, key, default) ==
    IF key \in DOMAIN params THEN params[key] ELSE default

\* The character references step_to_xml writes for comment text
EscapeChar(ch) ==
    CASE ch = "&" -> "&amp;"
      [] ch = "<" -> "&lt;"
      [] ch = ">" -> "&gt;"
      [] ch = "\n" -> "&#10;"
      [] ch = "\"" -> "&quot;"
      [] OTHER -> ch

Escape(text) == [k \in 1..Len(text) |-> EscapeChar(text[k])]

_strip_outer_quotes(s0) ==
    LET s == strip(s0)
    IN  IF Len(s) >= 2 /\ s[1] = "\"" /\ s[Len(s)] = "\""
        THEN SubSeq(s, 2, Len(s) - 1)
        ELSE s

\* while len(buttons) < 3: buttons.append('')
RECURSIVE PadButtons(_)
PadButtons(buttons) ==
    IF Len(buttons) < 3 THEN PadButtons(Append(buttons, <<>>)) ELSE buttons

\* ButtonEl that writes a calculation into every slot
ButtonEl_always_calculation(btn) ==
    El("Button", <<>>, <<>>, FALSE, <<Calculation(btn)>>)

ButtonEl(btn) ==
    IF Len(btn) > 0
    THEN El("Button", <<>>, <<>>, FALSE, <<Calculation(btn)>>)
    ELSE Leaf("Button", <<>>)

OnOffState(p) == IF Get(p, "state", <<>>) = <<"On">> THEN "True" ELSE "False"

\* step_to_xml: the string it returns
step_to_xml(step) ==
    LET st == step.step_type
        p == step.params
    IN  CASE st = "comment" ->
               StepEl("89", <<"#", " ", "(", "comment", ")">>,
                      <<El("Text", <<>>, Escape(Get(p, "text", <<>>)), FALSE, <<>>)>>)
          [] st = "set_error_capture" ->
               StepEl("86", <<"Set Error Capture">>, <<State("Set", OnOffState(p))>>)
          [] st = "allow_user_abort" ->
               StepEl("85", <<"Allow User Abort">>, <<State("Set", OnOffState(p))>>)
          [] st = "set_variable" ->
               StepEl("141", <<"Set Variable">>,
                      <<WithCalc("Value", Get(p, "value", <<>>)),
                        WithCalc("Repetition", <<"1">>),
                        El("Name", <<>>, Get(p, "name", <<>>), FALSE, <<>>)>>)
          [] st = "set_field_by_name" ->
               StepEl("147", <<"Set Field By Name">>,
                      <<WithCalc("Result", Get(p, "value", <<>>)),
                        WithCalc("TargetName", Get(p, "target", <<>>))>>)
          [] st = "if" ->
               StepEl("68", <<"If">>, <<Calculation(Get(p, "calc", <<>>))>>)
          [] st = "else_if" ->
               StepEl("125", <<"Else If">>, <<Calculation(Get(p, "calc", <<>>))>>)
          [] st = "else" -> StepEl("69", <<"Else">>, <<>>)
          [] st = "end_if" -> StepEl("70", <<"End If">>, <<>>)
          [] st = "loop" ->
               StepEl("71", <<"Loop">>, <<Leaf("FlushType", <<At("value", <<"Always">>)>>)>>)
          [] st = "exit_loop_if" ->
               StepEl("72", <<"Exit Loop If">>, <<Calculation(Get(p, "calc", <<>>))>>)
          [] st = "end_loop" -> StepEl("73", <<"End Loop">>, <<>>)
          [] st = "show_custom_dialog" ->
               LET buttons == PadButtons(Get(p, "buttons", << <<"\"", "OK", "\"">> >>))
               IN  StepEl("87", <<"Show Custom Dialog">>,
                      <<WithCalc("Title", Get(p, "title", <<"\"", "\"">>)),
                        WithCalc("Message", Get(p, "message", <<"\"", "\"">>)),
                        El("Buttons", <<>>, <<>>, FALSE,
                           [k \in 1..3 |-> ButtonEl(buttons[k])])>>)
          [] st = "exit_script" ->
               IF Len(Get(p, "result", <<>>)) > 0
               THEN StepEl("103", <<"Exit Script">>, <<Calculation(p.result)>>)
               ELSE StepEl("103", <<"Exit Script">>, <<>>)
          [] st = "commit_records" ->
               StepEl("75", <<"Commit Records/Requests">>,
                      IF Get(p, "no_dialog", FALSE)
                      THEN <<State("NoInteract", "True")>> ELSE <<>>)
          [] st = "perform_script" ->
               LET name == _strip_outer_quotes(Get(p, "script_name", <<>>))
                   param == Get(p, "parameter", <<>>)
               IN  StepEl("1", <<"Perform Script">>,
                      (IF Len(param) > 0 THEN <<Calculation(param)>> ELSE <<>>)
                      \o <<El("Text", <<>>, name, FALSE, <<>>)>>)
          [] st = "go_to_layout" ->
               LET layout == _strip_outer_quotes(Get(p, "layout", <<>>))
               IN  IF Len(layout) > 0
                   THEN StepEl("6", <<"Go to Layout">>,
                          <<Leaf("LayoutDestination", <<At("value", <<"ByName">>)>>),
                            Leaf("Layout", <<At("id", <<"0">>), At("name", layout)>>)>>)
                   ELSE StepEl("6", <<"Go to Layout">>,
                          <<Leaf("LayoutDestination", <<At("value", <<"CurrentLayout">>)>>),
                            Leaf("Layout", <<At("id", <<"0">>), At("name", <<>>)>>)>>)
          [] st = "insert_from_url" ->
               LET url == Get(p, "url", <<>>)
                   curl == Get(p, "curl", <<>>)
               IN  StepEl("160", <<"Insert from URL">>,
                      <<State("NoInteract", "False"), State("DontEncodeURL", "False"),
                        State("SelectAll", "False"),
                        State("VerifySSLCertificates", "False")>>
                      \o (IF Len(url) > 0 THEN <<WithCalc("URL", url)>> ELSE <<>>)
                      \o (IF Len(curl) > 0 THEN <<WithCalc("CURLOptions", curl)>> ELSE <<>>))
          [] st = "go_to_record" ->
               StepEl("16", <<"Go to Record/Request/Page">>,
                      <<Leaf("RowPageLocation",
                             <<At("value", Get(p, "direction", <<"First">>))>>),
                        State("NoInteract", "False")>>)
          [] st = "new_record" -> StepEl("7", <<"New Record/Request">>, <<>>)
          [] st = "enter_find_mode" ->
               StepEl("22", <<"Enter Find Mode">>,
                      <<State("Pause", IF Get(p, "pause", FALSE) THEN "True" ELSE "False"),
                        State("Restore", "False")>>)
          [] st = "perform_find" ->
               StepEl("28", <<"Perform Find">>, <<State("Restore", "False")>>)
          [] st = "sort_records" ->
               StepEl("39", <<"Sort Records">>,
                      <<State("NoInteract", "False"), State("Restore", "False")>>)
          [] OTHER -> UnknownStep(st)

\* step_to_xml: the step as the call leaves it (the buttons list of a
\* show_custom_dialog step is padded in place)
step_after_xml(step) ==
    IF step.step_type = "show_custom_dialog" /\ "buttons" \in DOMAIN step.params
    THEN [step EXCEPT !.params.buttons = PadButtons(step.params.buttons)]
    ELSE step

\* xml.replace('enable="True"', 'enable="False"', 1): the first occurrence is
\* the Step tag's own attribute, with which every encoded Step string begins;
\* the Unknown-step comment holds no occurrence.
DisableFirst(e) ==
    IF e.tag = "Step" /\ Len(e.attrs) >= 1 /\ e.attrs[1] = At("enable", <<"True">>)
    THEN [e EXCEPT !.attrs[1] = At("enable", <<"False">>)]
    ELSE e

\* generate_xml: the envelope around the encoded steps
generate_xml(ss) ==
    El("fmxmlsnippet", <<At("type", <<"FMObjectList">>)>>, <<>>, FALSE,
       [k \in 1..Len(ss) |->
           IF ss[k].enabled THEN step_to_xml(ss[k])
           ELSE DisableFirst(step_to_xml(ss[k]))])

\* generate_xml: the steps as the call leaves them
steps_after_xml(ss) == [k \in 1..Len(ss) |-> step_after_xml(ss[k])]

RECURSIVE attrs_string(_)
\* The attributes as the f-strings of step_to_xml write them
attrs_string(attrs) ==
    IF Len(attrs) = 0 THEN <<>>
    ELSE <<" ", attrs[1].n, "=", "\"">> \o attrs[1].v \o <<"\"">>
         \o attrs_string(Tail(attrs))

RECURSIVE xml_string(_), xml_strings(_)
\* The string step_to_xml returns for the element
xml_string(e) ==
    IF e.tag = "!--" THEN <<"<!--", " ">> \o e.text \o <<" ", "-->">>
    ELSE <<"<", e.tag>> \o attrs_string(e.attrs) \o <<">">>
         \o (IF e.cdata THEN <<"<![CDATA[">> \o e.text \o <<"]]>">> ELSE e.text)
         \o xml_strings(e.kids)
         \o <<"</", e.tag, ">">>

xml_strings(kids) ==
    IF Len(kids) = 0 THEN <<>>
    ELSE xml_string(kids[1]) \o xml_strings(Tail(kids))

RECURSIVE find_from(_, _, _)
\* The first position from k on where old stands in s, 0 if none
find_from(s, old, k) ==
    IF k + Len(old) - 1 > Len(s) THEN 0
    ELSE IF SubSeq(s, k, k + Len(old) - 1) = old THEN k
    ELSE find_from(s, old, k + 1)

RECURSIVE rfind_from(_, _, _)
\* The last position up to k where old stands in s, 0 if none
rfind_from(s, old, k) ==
    IF k < 1 THEN 0
    ELSE IF k + Len(old) - 1 <= Len(s) /\ SubSeq(s, k, k + Len(old) - 1) = old THEN k
    ELSE rfind_from(s, old, k - 1)

replace_at(s, k, old, new) ==
    IF k = 0 THEN s
    ELSE SubSeq(s, 1, k - 1) \o new \o SubSeq(s, k + Len(old), Len(s))

\* replace_first that replaces the last occurrence
replace_last(s, old, new) == replace_at(s, rfind_from(s, old, Len(s)), old, new)

\* s.replace(old, new, 1)
replace_first(s, old, new) == replace_at(s, find_from(s, old, 1), old, new)

\* 'enable="True"' and 'enable="False"'
EnableTrue == <<"enable", "=", "\"", "True", "\"">>

EnableFalse == <<"enable", "=", "\"", "False", "\"">>

\* The string generate_xml appends for the step
step_string(step) ==
    IF step.enabled THEN xml_string(step_to_xml(step))
    ELSE replace_first(xml_string(step_to_xml(step)), EnableTrue, EnableFalse)

(***************************************************************************)
(* STAGE 4: XML decompiler.  ET.fromstring is XmlParse: it rejects a       *)
(* document that is not well-formed, decodes character references, takes   *)
(* CDATA verbatim and drops comments.                                      *)
(***************************************************************************)
HasCdataEnd(raw) ==
    \E k \in 1..(Len(raw) - 2) : raw[k] = "]" /\ raw[k + 1] = "]" /\ raw[k + 2] = ">"

BadText(raw, cdata) ==
    \/ HasCdataEnd(raw)
    \/ ~cdata /\ \E k \in 1..Len(raw) : raw[k] \in {"&", "<"}

BadAttr(v) == \E k \in 1..Len(v) : v[k] \in {"&", "<", "\""}

DecodeChar(t) ==
    CASE t = "&amp;" -> "&"
      [] t = "&lt;" -> "<"
      [] t = "&gt;" -> ">"
      [] t = "&#10;" -> "\n"
      [] t = "&quot;" -> "\""
      [] OTHER -> t

Decode(raw) == [k \in 1..Len(raw) |-> DecodeChar(raw[k])]

RECURSIVE WellFormed(_)
WellFormed(e) ==
    IF e.tag = "!--" THEN TRUE
    ELSE /\ ~BadText(e.text, e.cdata)
         /\ \A k \in 1..Len(e.attrs) : ~BadAttr(e.attrs[k].v)
         /\ \A k \in 1..Len(e.kids) : WellFormed(e.kids[k])

RECURSIVE Elements(_)
Elements(kids) ==
    IF Len(kids) = 0 THEN <<>>
    ELSE IF kids[1].tag = "!--" THEN Elements(Tail(kids))
    ELSE <<kids[1]>> \o Elements(Tail(kids))

RECURSIVE ParseElement(_)
ParseElement(e) ==
    LET kept == Elements(e.kids)
    IN  El(e.tag,
           [k \in 1..Len(e.attrs) |-> At(e.attrs[k].n, Decode(e.attrs[k].v))],
           IF e.cdata THEN e.text ELSE Decode(e.text),
           FALSE,
           [k \in 1..Len(kept) |-> ParseElement(kept[k])])

\* ET.fromstring that takes any document
XmlParse_lenient(xml_text) == [ok |-> TRUE, root |-> ParseElement(xml_text)]

\* ET.fromstring
XmlParse(xml_text) ==
    IF xml_text.tag # "!--" /\ WellFormed(xml_text) THEN [ok |-> TRUE, root |-> ParseElement(xml_text)]
    ELSE [ok |-> FALSE]

\* Element.find(tag): the first child with that tag
HasChild(e, tag) == \E k \in 1..Len(e.kids) : e.kids[k].tag = tag

Find(e, tag) ==
    e.kids[CHOOSE k \in 1..Len(e.kids) :
               e.kids[k].tag = tag /\ \A j \in 1..(k - 1) : e.kids[j].tag # tag]

\* Element.findall(tag)
RECURSIVE FindAll(_, _)
FindAll(kids, tag) ==
    IF Len(kids) = 0 THEN <<>>
    ELSE IF kids[1].tag = tag THEN <<kids[1]>> \o FindAll(Tail(kids), tag)
    ELSE FindAll(Tail(kids), tag)

\* Element.get(name, default)
AttrGet(e, name, default) ==
    IF \E k \in 1..Len(e.attrs) : e.attrs[k].n = name
    THEN e.attrs[CHOOSE k \in 1..Len(e.attrs) : e.attrs[k].n = name].v
    ELSE default

\* Element.iter('Step'): the Step elements in document order
RECURSIVE Iter(_), IterKids(_)
IterKids(kids) ==
    IF Len(kids) = 0 THEN <<>>
    ELSE Iter(kids[1]) \o IterKids(Tail(kids))

Iter(e) ==
    (IF e.tag = "Step" THEN <<e>> ELSE <<>>) \o IterKids(e.kids)

\* x or default
Or(x, default) == IF Len(x) = 0 THEN default ELSE x

\* _get_text; None and '' are both the empty sequence, every caller
\* applying "or" to the result
_get_text(elem, tag) ==
    IF HasChild(elem, tag) THEN strip(Find(elem, tag).text) ELSE <<>>

_get_calc(elem, parent_tag) ==
    IF HasChild(elem, parent_tag) /\ HasChild(Find(elem, parent_tag), "Calculation")
    THEN strip(Find(Find(elem, parent_tag), "Calculation").text)
    ELSE <<>>

_get_calc_direct(elem) ==
    IF HasChild(elem, "Calculation") THEN strip(Find(elem, "Calculation").text)
    ELSE <<>>

\* indent_str * indent_level
RECURSIVE Pad(_)
\* Pad that renders no indentation
Pad_flat(indent_level) == <<>>

Pad(indent_level) ==
    IF indent_level = 0 THEN <<>>
    ELSE <<" ", " ", " ", " ">> \o Pad(indent_level - 1)

PyMax(a, b) == IF a >= b THEN a ELSE b

\* 'On' if set_elem is not None and set_elem.get('state') == 'True' else 'Off'
SetState(e) ==
    IF HasChild(e, "Set") /\ AttrGet(Find(e, "Set"), "state", <<>>) = <<"True">>
    THEN "On" ELSE "Off"

\* The Calculation texts of the Button children that have one
RECURSIVE ButtonTexts(_)
ButtonTexts(btns) ==
    IF Len(btns) = 0 THEN <<>>
    ELSE IF HasChild(btns[1], "Calculation")
            /\ Len(Find(btns[1], "Calculation").text) > 0
    THEN <<strip(Find(btns[1], "Calculation").text)>> \o ButtonTexts(Tail(btns))
    ELSE ButtonTexts(Tail(btns))

Sep == <<" ", ";", " ">>

Bracket(keyword, inner) == <<keyword, " ", "[", " ">> \o inner \o <<" ", "]">>

Quoted(name) == <<"\"">> \o name \o <<"\"">>

Labelled(label, value) ==
    IF Len(value) > 0 THEN << <<label, " ">> \o value >> ELSE <<>>

\* One pass of the loop of decompile_xml: the lines the element appends
\* (without pad and prefix) and the change of indent_level after them.
\* The branches for ids 61, 122, 226 and 214 are left out: no document of
\* the model carries those ids.
decompile_body(e) ==
    LET step_id == AttrGet(e, "id", <<>>)
        step_name == AttrGet(e, "name", <<>>)
        One(line, inc) == [lines |-> <<line>>, inc |-> inc]
    IN  CASE step_id = <<"89">> ->
               [lines |-> [k \in 1..Len(Split(_get_text(e, "Text"), "\n")) |->
                              <<"#", " ">> \o Split(_get_text(e, "Text"), "\n")[k]],
                inc |-> 0]
          [] step_id = <<"86">> ->
               One(Bracket("Set Error Capture", <<SetState(e)>>), 0)
          [] step_id = <<"85">> ->
               One(Bracket("Allow User Abort", <<SetState(e)>>), 0)
          [] step_id = <<"141">> ->
               One(Bracket("Set Variable",
                           Or(_get_text(e, "Name"), <<"$?">>) \o Sep
                           \o <<"Value:", " ">> \o _get_calc(e, "Value")), 0)
          [] step_id = <<"147">> ->
               One(Bracket("Set Field By Name",
                           Or(_get_calc(e, "TargetName"), <<"?">>) \o Sep
                           \o _get_calc(e, "Result")), 0)
          [] step_id = <<"68">> ->
               One(Bracket("If", Or(_get_calc_direct(e), <<"?">>)), 1)
          [] step_id = <<"125">> /\ step_name = <<"Else If">> ->
               One(Bracket("Else If", Or(_get_calc_direct(e), <<"?">>)), 1)
          [] step_id = <<"69">> -> One(<<"Else">>, 1)
          [] step_id = <<"70">> /\ step_name = <<"End If">> -> One(<<"End If">>, 0)
          [] step_id = <<"71">> /\ step_name = <<"Loop">> -> One(<<"Loop">>, 1)
          [] step_id = <<"72">> ->
               One(Bracket("Exit Loop If", Or(_get_calc_direct(e), <<"?">>)), 0)
          [] step_id = <<"73">> -> One(<<"End Loop">>, 0)
          [] step_id = <<"87">> ->
               LET title == Or(_get_calc(e, "Title"), <<"\"", "\"">>)
                   message == Or(_get_calc(e, "Message"), <<"\"", "\"">>)
                   btn_list == IF HasChild(e, "Buttons")
                               THEN ButtonTexts(FindAll(Find(e, "Buttons").kids, "Button"))
                               ELSE <<>>
               IN  One(Bracket("Show Custom Dialog",
                               Join(<<title, message>> \o btn_list, Sep)), 0)
          [] step_id = <<"103">> ->
               IF Len(_get_calc_direct(e)) > 0
               THEN One(Bracket("Exit Script", _get_calc_direct(e)), 0)
               ELSE One(<<"Exit Script">>, 0)
          [] step_id = <<"75">> ->
               IF HasChild(e, "NoInteract")
                  /\ AttrGet(Find(e, "NoInteract"), "state", <<>>) = <<"True">>
               THEN One(Bracket("Commit Records", <<"No dialog">>), 0)
               ELSE One(<<"Commit Records">>, 0)
          [] step_id = <<"1">> ->
               LET name == IF HasChild(e, "Script")
                           THEN Or(Or(AttrGet(Find(e, "Script"), "name", <<>>),
                                      _get_text(e, "Text")), <<"?">>)
                           ELSE Or(_get_text(e, "Text"), <<"?">>)
                   param == _get_calc_direct(e)
               IN  IF Len(param) > 0
                   THEN One(Bracket("Perform Script", Quoted(name) \o Sep \o param), 0)
                   ELSE One(Bracket("Perform Script", Quoted(name)), 0)
          [] step_id = <<"6">> ->
               LET name == IF HasChild(e, "Layout")
                           THEN AttrGet(Find(e, "Layout"), "name", <<>>) ELSE <<>>
                   dest == IF HasChild(e, "LayoutDestination")
                           THEN AttrGet(Find(e, "LayoutDestination"), "value", <<>>)
                           ELSE <<>>
               IN  IF dest = <<"OriginalLayout">>
                   THEN One(Bracket("Go to Layout", <<"original layout">>), 0)
                   ELSE IF Len(name) > 0
                   THEN One(Bracket("Go to Layout", Quoted(name)), 0)
                   ELSE One(Bracket("Go to Layout", <<"current layout">>), 0)
          [] step_id = <<"160">> ->
               LET parts == Labelled("Target:", _get_calc(e, "Field"))
                            \o Labelled("URL:", _get_calc(e, "URL"))
                            \o Labelled("cURL:", _get_calc(e, "CURLOptions"))
               IN  IF Len(parts) > 0
                   THEN One(Bracket("Insert from URL", Join(parts, Sep)), 0)
                   ELSE One(<<"Insert from URL">>, 0)
          [] step_id = <<"16">> ->
               One(Bracket("Go to Record/Request/Page",
                           IF HasChild(e, "RowPageLocation")
                           THEN AttrGet(Find(e, "RowPageLocation"), "value", <<"?">>)
                           ELSE <<"?">>), 0)
          [] step_id = <<"7">> /\ step_name = <<"New Record/Request">> ->
               One(<<"New Record/Request">>, 0)
          [] step_id = <<"22">> -> One(<<"Enter Find Mode">>, 0)
          [] step_id = <<"28">> -> One(<<"Perform Find">>, 0)
          [] step_id = <<"39">> -> One(<<"Sort Records">>, 0)
          [] step_id = <<"76">> ->
               LET table == IF HasChild(e, "Field")
                            THEN AttrGet(Find(e, "Field"), "table", <<>>) ELSE <<>>
                   fname == IF HasChild(e, "Field")
                            THEN AttrGet(Find(e, "Field"), "name", <<>>) ELSE <<"?">>
                   calc == _get_calc_direct(e)
                   field_ref == IF Len(table) > 0 THEN table \o <<"::">> \o fname
                                ELSE fname
               IN  IF Len(calc) > 0
                   THEN One(Bracket("Set Field", field_ref \o Sep \o calc), 0)
                   ELSE One(Bracket("Set Field", field_ref), 0)
          [] step_id = <<"31">> ->
               One(Bracket("Adjust Window",
                           IF HasChild(e, "WindowState")
                           THEN AttrGet(Find(e, "WindowState"), "value", <<"?">>)
                           ELSE <<"?">>), 0)
          [] step_id = <<"80">> -> One(<<"Refresh Window">>, 0)
          [] step_id = <<"90">> -> One(<<"Halt Script">>, 0)
          [] OTHER -> One(step_name \o <<" ", "[", "id=">> \o step_id \o <<"]">>, 0)

RECURSIVE decompile_from_enabled_only(_, _, _)
\* The loop of decompile_xml with the counter moved by enabled steps only
decompile_from_enabled_only(elems, k, indent_level) ==
    IF k > Len(elems) THEN <<>>
    ELSE IF AttrGet(elems[k], "enable", <<"True">>) = <<"True">>
    THEN [j \in 1..Len(decompile_body(elems[k]).lines) |->
             Pad(IF AttrGet(elems[k], "id", <<>>) \in {<<"70">>, <<"73">>, <<"69">>, <<"125">>}
                 THEN PyMax(0, indent_level - 1) ELSE indent_level)
             \o decompile_body(elems[k]).lines[j]]
         \o decompile_from_enabled_only(elems, k + 1,
                (IF AttrGet(elems[k], "id", <<>>) \in {<<"70">>, <<"73">>, <<"69">>, <<"125">>}
                 THEN PyMax(0, indent_level - 1) ELSE indent_level)
                + decompile_body(elems[k]).inc)
    ELSE [j \in 1..Len(decompile_body(elems[k]).lines) |->
             Pad(indent_level) \o <<"//", " ">> \o decompile_body(elems[k]).lines[j]]
         \o decompile_from_enabled_only(elems, k + 1, indent_level)

\* The loop of decompile_xml from element k on
RECURSIVE decompile_from(_, _, _)
decompile_from(elems, k, indent_level) ==
    IF k > Len(elems) THEN <<>>
    ELSE LET e == elems[k]
             step_id == AttrGet(e, "id", <<>>)
             prefix == IF AttrGet(e, "enable", <<"True">>) = <<"True">>
                       THEN <<>> ELSE <<"//", " ">>
             level == IF step_id \in {<<"70">>, <<"73">>, <<"69">>, <<"125">>}
                      THEN PyMax(0, indent_level - 1) ELSE indent_level
             body == decompile_body(e)
         IN  [j \in 1..Len(body.lines) |-> Pad(level) \o prefix \o body.lines[j]]
             \o decompile_from(elems, k + 1, level + body.inc)

\* indent_level through the loop of decompile_xml from element k on: for
\* every element the counter before it, whether max(0, indent_level - 1)
\* took the 0 over a negative number, and the counter after it
RECURSIVE indent_counter(_, _, _)
indent_counter(elems, k, indent_level) ==
    IF k > Len(elems) THEN <<>>
    ELSE IF AttrGet(elems[k], "id", <<>>) \in {<<"70">>, <<"73">>, <<"69">>, <<"125">>}
    THEN <<[before |-> indent_level,
            floored |-> indent_level - 1 < 0,
            after |-> PyMax(0, indent_level - 1) + decompile_body(elems[k]).inc]>>
         \o indent_counter(elems, k + 1,
                PyMax(0, indent_level - 1) + decompile_body(elems[k]).inc)
    ELSE <<[before |-> indent_level,
            floored |-> FALSE,
            after |-> indent_level + decompile_body(elems[k]).inc]>>
         \o indent_counter(elems, k + 1, indent_level + decompile_body(elems[k]).inc)

ParseErrorText == <<"XML Parse Error:", " ", "not well-formed">>

\* decompile_xml
decompile_xml(xml_text) ==
    LET parsed == XmlParse(xml_text)
    IN  IF ~parsed.ok THEN ParseErrorText
        ELSE Join(decompile_from(Iter(parsed.root), 1, 0), <<"\n">>)

(***************************************************************************)
(* validate_structure as a state machine: the caller's list is read one    *)
(* step per iteration; `steps` holds the part of the list read so far.     *)
(***************************************************************************)
\* No string generated yet
NoXml == El("", <<>>, <<>>, FALSE, <<>>)

\* Nothing printed yet
NoReport == [parse_errors |-> <<>>, errors |-> <<>>, warnings |-> <<>>]

VStepTypes ==
    {"if", "else_if", "else", "end_if", "loop", "exit_loop_if", "end_loop",
     "set_variable"}

Init ==
    /\ pc = "validate"
    /\ steps = <<>>
    /\ block_stack = <<>>
    /\ errors = <<>>
    /\ warnings = <<>>
    /\ lines = <<>>
    /\ parse_state = ParseStart
    /\ xml = NoXml
    /\ written = NoXml
    /\ reported = NoReport
    /\ decoded = <<>>
    /\ reparsed = NoStep

ValidateStep ==
    /\ pc = "validate"
    /\ Len(steps) < MaxSteps
    /\ \E st \in VStepTypes :
          LET step == ParsedStep(st, NoParams, Len(steps) + 1, TRUE)
              r == validate_step(step, block_stack, errors)
          IN  /\ steps' = Append(steps, step)
              /\ block_stack' = r.stack
              /\ errors' = r.errors
    /\ UNCHANGED <<pc, warnings, parse_vars, output_vars>>

ValidateFinish ==
    /\ pc = "validate"
    /\ errors' = unclosed_errors(block_stack, 1, errors)
    /\ warnings' = step_count_warnings(steps, warnings)
    /\ pc' = "validated"
    /\ UNCHANGED <<steps, block_stack, parse_vars, output_vars>>

Next == ValidateStep \/ ValidateFinish

Spec == Init /\ [][Next]_vars

(***************************************************************************)
(* parse_text as a state machine: one raw line per iteration of the for    *)
(* loop; `lines` holds the raw lines read so far.                          *)
(***************************************************************************)
\* Set Variable [ $x ; Value: (1+
LineSetVarOpen ==
    <<"Set Variable", " ", "[", " ", "$x", " ", ";", " ", "Value:", " ", "(", "1+">>

\* 2) ]
LineClose == <<"2", ")", " ", "]">>

\* Set Variable [ $x ; Value: 1 ]
LineSetVar ==
    <<"Set Variable", " ", "[", " ", "$x", " ", ";", " ", "Value:", " ", "1", " ", "]">>

\* If [ f(
LineIfOpen == <<"If", " ", "[", " ", "f", "(">>

\*   a   (indented)
LineAtom == <<" ", " ", "a">>

LineBlank == <<>>

\* # a
LineComment == <<"#", " ", "a">>

\* Bogus
LineBogus == <<"Bogus">>

\* // Loop
LineDisabledLoop == <<"//", " ", "Loop">>

\* End Loop
LineEndLoop == <<"End Loop">>

LinePool ==
    {LineSetVarOpen, LineClose, LineSetVar, LineIfOpen, LineAtom, LineBlank,
     LineComment, LineBogus, LineDisabledLoop, LineEndLoop}

InitParse ==
    /\ pc = "parse"
    /\ lines = <<>>
    /\ parse_state = ParseStart
    /\ steps = <<>>
    /\ block_stack = <<>>
    /\ errors = <<>>
    /\ warnings = <<>>
    /\ xml = NoXml
    /\ written = NoXml
    /\ reported = NoReport
    /\ decoded = <<>>
    /\ reparsed = NoStep

ParseReadLine ==
    /\ pc = "parse"
    /\ Len(lines) < MaxLines
    /\ \E line \in LinePool :
          /\ lines' = Append(lines, line)
          /\ parse_state' = read_line(parse_state, Len(lines) + 1, line)
    /\ UNCHANGED <<pc, steps, validate_vars, output_vars>>

ParseFinish ==
    /\ pc = "parse"
    /\ parse_state' = parse_finish(parse_state)
    /\ steps' = parse_state'.steps
    /\ pc' = "parsed"
    /\ UNCHANGED <<lines, validate_vars, output_vars>>

NextParse == ParseReadLine \/ ParseFinish

SpecParse == InitParse /\ [][NextParse]_vars

(***************************************************************************)
(* parse_text over comment lines: the same loop, reading from a pool of    *)
(* comments in both enabled states, one of them leaving a parenthesis open.*)
(***************************************************************************)
LineLoop == <<"Loop">>

\* # b
LineCommentB == <<"#", " ", "b">>

\* #
LineCommentEmpty == <<"#">>

\* # a (
LineCommentOpen == <<"#", " ", "a", " ", "(">>

\* // # a
LineDisabledComment == <<"//", " ", "#", " ", "a">>

CommentPool ==
    {LineComment, LineCommentB, LineCommentEmpty, LineCommentOpen,
     LineDisabledComment, LineLoop}

CommentsReadLine ==
    /\ pc = "parse"
    /\ Len(lines) < MaxComments
    /\ \E line \in CommentPool :
          /\ lines' = Append(lines, line)
          /\ parse_state' = read_line(parse_state, Len(lines) + 1, line)
    /\ UNCHANGED <<pc, steps, validate_vars, output_vars>>

\* The parsed steps are encoded
CommentsGenerate ==
    /\ pc = "parsed"
    /\ xml' = generate_xml(steps)
    /\ steps' = steps_after_xml(steps)
    /\ pc' = "generated"
    /\ UNCHANGED <<parse_vars, validate_vars, written, reported, decoded, reparsed>>

\* The encoded string is decompiled
CommentsDecompile ==
    /\ pc = "generated"
    /\ decoded' = decompile_xml(xml)
    /\ pc' = "decompiled"
    /\ UNCHANGED <<parse_vars, validate_vars, steps, xml, written, reported, reparsed>>

NextComments ==
    CommentsReadLine \/ ParseFinish \/ CommentsGenerate \/ CommentsDecompile

SpecComments == InitParse /\ [][NextComments]_vars

(***************************************************************************)
(* The codec on one step: parse_line reads a line, generate_xml encodes    *)
(* the step, decompile_xml decodes the string and parse_line reads the     *)
(* decoded line.                                                           *)
(***************************************************************************)
CodecLines ==
    {<<"#", " ", "a", " ", "&", " ", "b">>,
     Bracket("Set Error Capture", <<"On">>),
     Bracket("Allow User Abort", <<"Off">>),
     Bracket("Set Variable", <<"$x", " ", ";", " ", "Value:", " ", "1">>),
     Bracket("Set Field By Name", <<"T::F", " ", ";", " ", "1">>),
     Bracket("Set Field", <<"T::F", " ", ";", " ", "1">>),
     Bracket("If", <<"a">>),
     Bracket("Else If", <<"a">>),
     <<"Else">>, <<"End If">>, <<"Loop">>,
     Bracket("Exit Loop If", <<"a">>),
     <<"End Loop">>,
     Bracket("Show Custom Dialog",
             <<"\"", "T", "\"", " ", ";", " ", "\"", "M", "\"", " ", ";", " ",
               "\"", "OK", "\"">>),
     Bracket("Exit Script", <<"a">>), <<"Exit Script">>,
     Bracket("Commit Records", <<"No dialog">>), <<"Commit Records">>,
     Bracket("Insert from URL",
             <<"Target:", " ", "$r", " ", ";", " ", "URL:", " ", "\"", "u", "\"">>),
     Bracket("Perform Script", <<"\"", "A", "\"", " ", ";", " ", "1">>),
     Bracket("Perform Script", <<"\"", "A", "\"">>),
     Bracket("Go to Layout", <<"\"", "A", "\"">>),
     Bracket("Go to Record/Request/Page", <<"Next">>),
     <<"New Record/Request">>,
     Bracket("Enter Find Mode", <<"Pause">>), <<"Enter Find Mode">>,
     <<"Perform Find">>, <<"Sort Records">>}

InitCodec ==
    /\ pc = "encode"
    /\ \E line \in CodecLines, disable \in BOOLEAN :
          LET text == IF disable THEN <<"//", " ">> \o line ELSE line
          IN  /\ lines = <<text>>
              /\ steps = <<parse_line(text, 1).step>>
    /\ parse_state = ParseStart
    /\ block_stack = <<>>
    /\ errors = <<>>
    /\ warnings = <<>>
    /\ xml = NoXml
    /\ written = NoXml
    /\ reported = NoReport
    /\ decoded = <<>>
    /\ reparsed = NoStep

CodecEncode ==
    /\ pc = "encode"
    /\ xml' = generate_xml(steps)
    /\ steps' = steps_after_xml(steps)
    /\ pc' = "encoded"
    /\ UNCHANGED <<parse_vars, validate_vars, written, reported, decoded, reparsed>>

CodecDecode ==
    /\ pc = "encoded"
    /\ decoded' = decompile_xml(xml)
    /\ pc' = "decoded"
    /\ UNCHANGED <<parse_vars, validate_vars, steps, xml, written, reported, reparsed>>

CodecReparse ==
    /\ pc = "decoded"
    /\ reparsed' = parse_line(decoded, 1)
    /\ pc' = "reparsed"
    /\ UNCHANGED <<parse_vars, validate_vars, steps, xml, written, reported, decoded>>

NextCodec == CodecEncode \/ CodecDecode \/ CodecReparse

SpecCodec == InitCodec /\ [][NextCodec]_vars

(***************************************************************************)
(* The codec on one show_custom_dialog step with any list of buttons       *)
(***************************************************************************)
\* "OK"
ButtonOK == <<"\"", "OK", "\"">>

\* "Cancel"
ButtonCancel == <<"\"", "Cancel", "\"">>

ButtonPool == {<<>>, ButtonOK, ButtonCancel}

RECURSIVE ButtonLists(_)
\* The lists of at most n buttons
ButtonLists(n) ==
    IF n = 0 THEN {<<>>}
    ELSE ButtonLists(n - 1)
         \cup {Append(bs, b) : bs \in {l \in ButtonLists(n - 1) : Len(l) = n - 1},
                               b \in ButtonPool}

InitDialog ==
    /\ pc = "encode"
    /\ lines = <<>>
    /\ \E buttons \in ButtonLists(MaxButtons), enabled \in BOOLEAN :
          steps = <<ParsedStep("show_custom_dialog",
                               [title |-> <<"\"", "T", "\"">>,
                                message |-> <<"\"", "M", "\"">>,
                                buttons |-> buttons], 1, enabled)>>
    /\ parse_state = ParseStart
    /\ block_stack = <<>>
    /\ errors = <<>>
    /\ warnings = <<>>
    /\ xml = NoXml
    /\ written = NoXml
    /\ reported = NoReport
    /\ decoded = <<>>
    /\ reparsed = NoStep

SpecDialog == InitDialog /\ [][NextCodec]_vars

(***************************************************************************)
(* The codec on one step whose text may hold `enable="True"` itself        *)
(***************************************************************************)
\* # enable="True"
LineCommentEnable == <<"#", " ">> \o EnableTrue

\* If [ enable="True" ]
LineIfEnable == Bracket("If", EnableTrue)

FlipLines == CodecLines \cup {LineCommentEnable, LineIfEnable}

InitFlip ==
    /\ pc = "encode"
    /\ \E line \in FlipLines, disable \in BOOLEAN :
          LET text == IF disable THEN <<"//", " ">> \o line ELSE line
          IN  /\ lines = <<text>>
              /\ steps = <<parse_line(text, 1).step>>
    /\ parse_state = ParseStart
    /\ block_stack = <<>>
    /\ errors = <<>>
    /\ warnings = <<>>
    /\ xml = NoXml
    /\ written = NoXml
    /\ reported = NoReport
    /\ decoded = <<>>
    /\ reparsed = NoStep

SpecFlip == InitFlip /\ [][NextCodec]_vars

(***************************************************************************)
(* cmd_process, compose route: parse_text reads the content line by line,  *)
(* then the stages of the pipeline run; a second run decompiles what the   *)
(* first one wrote.                                                        *)
(***************************************************************************)
\* Set Variable [ $x ]
LineBadSetVar == Bracket("Set Variable", <<"$x">>)

\* If [ a ]
LineIf == Bracket("If", <<"a">>)

LineElse == <<"Else">>

LineEndIf == <<"End If">>

\* Set Field [ T::F ; 1 ]
LineSetField == Bracket("Set Field", <<"T::F", " ", ";", " ", "1">>)

\* // Enter Find Mode [ Pause ]
LineDisabledFind == <<"//", " ">> \o Bracket("Enter Find Mode", <<"Pause">>)

\* Every line of the pool is a whole statement.
ContentPool ==
    {LineBlank, LineComment, LineBogus, LineBadSetVar, LineSetVar, LineSetField,
     LineIf, LineElse, LineEndIf, LineLoop, LineEndLoop, LineDisabledFind}

InitCompose ==
    /\ pc = "compose"
    /\ lines = <<>>
    /\ parse_state = ParseStart
    /\ steps = <<>>
    /\ block_stack = <<>>
    /\ errors = <<>>
    /\ warnings = <<>>
    /\ xml = NoXml
    /\ written = NoXml
    /\ reported = NoReport
    /\ decoded = <<>>
    /\ reparsed = NoStep

\* parse_text, one pass of its for loop
ComposeReadLine ==
    /\ pc = "compose"
    /\ Len(lines) < MaxContent
    /\ \E line \in ContentPool :
          /\ lines' = Append(lines, line)
          /\ parse_state' = read_line(parse_state, Len(lines) + 1, line)
    /\ UNCHANGED <<pc, steps, validate_vars, output_vars>>

\* A report of the first parse error only
parse_error_report_first(parse_errors) ==
    [parse_errors |-> SubSeq(parse_errors, 1, 1), errors |-> <<>>, warnings |-> <<>>]

\* What the "if parse_errors" branch prints
parse_error_report(parse_errors) ==
    [parse_errors |-> parse_errors, errors |-> <<>>, warnings |-> <<>>]

\* What is printed of a ValidationResult: report() when it is not valid,
\* the warnings when it is
validation_report(result) ==
    [parse_errors |-> <<>>, errors |-> result.errors, warnings |-> result.warnings]

\* Stage 1: the end of parse_text, then exit 1 on any parse error
ComposeParse ==
    /\ pc = "compose"
    /\ parse_state' = parse_finish(parse_state)
    /\ steps' = parse_state'.steps
    /\ IF Len(parse_state'.errors) > 0
       THEN /\ reported' = parse_error_report(parse_state'.errors)
            /\ pc' = "exit_1"
       ELSE /\ reported' = reported
            /\ pc' = "parsed_ok"
    /\ UNCHANGED <<lines, validate_vars, xml, written, decoded, reparsed>>

\* Stage 2: validate_structure, then exit 1 unless is_valid
ComposeValidate ==
    /\ pc = "parsed_ok"
    /\ LET result == validate_structure(steps)
       IN  /\ errors' = result.errors
           /\ warnings' = result.warnings
           /\ reported' = validation_report(result)
           /\ pc' = IF is_valid(result.errors) THEN "valid" ELSE "exit_1"
    /\ UNCHANGED <<parse_vars, steps, block_stack, xml, written, decoded, reparsed>>

\* Stage 3: generate_xml
ComposeGenerate ==
    /\ pc = "valid"
    /\ xml' = generate_xml(steps)
    /\ steps' = steps_after_xml(steps)
    /\ pc' = "generated"
    /\ UNCHANGED <<parse_vars, validate_vars, written, reported, decoded, reparsed>>

\* The string goes to the output file, the clipboard or the terminal
ComposeWrite ==
    /\ pc = "generated"
    /\ written' = xml
    /\ pc' = "done"
    /\ UNCHANGED <<parse_vars, validate_vars, steps, xml, reported, decoded, reparsed>>

\* A second run, on what the first one wrote: the decompile route
ComposeDecompile ==
    /\ pc = "done"
    /\ decoded' = decompile_xml(written)
    /\ pc' = "decompiled"
    /\ UNCHANGED <<parse_vars, validate_vars, steps, xml, written, reported, reparsed>>

NextCompose ==
    \/ ComposeReadLine
    \/ ComposeParse
    \/ ComposeValidate
    \/ ComposeGenerate
    \/ ComposeWrite
    \/ ComposeDecompile

SpecCompose == InitCompose /\ [][NextCompose]_vars

(***************************************************************************)
(* parse_line on one logical line, then parse_text on the same line: the   *)
(* line is a remainder behind nothing, behind the disable marker `// `, or *)
(* behind `//` alone.                                                      *)
(***************************************************************************)
\* // Bogus
LineDisabledBogus == <<"//", " ", "Bogus">>

\* Parameter lists with semicolons inside quotes and parentheses
SemicolonLines ==
    {Bracket("Set Field By Name",
             <<"\"", "a", ";", "b", "\"", " ", ";", " ", "1">>),
     Bracket("Set Field", <<"T::F", " ", ";", " ", "f", "(", "a", ";", "b", ")">>),
     Bracket("Set Field", <<"f", "(", "a", ";", "b", ")", " ", ";", " ", "1">>),
     Bracket("Set Variable",
             <<"$x", " ", ";", " ", "Value:", " ", "\"", "a", ";", "b", "\"">>),
     Bracket("Perform Script",
             <<"\"", "a", ";", "b", "\"", " ", ";", " ",
               "f", "(", "1", ";", "2", ")">>),
     Bracket("Perform Script",
             <<"f", "(", "\"", "a", ")", "b", ";", "c", "\"", ")", " ", ";", " ", "1">>),
     Bracket("Show Custom Dialog",
             <<"\"", "T", ";", "x", "\"", " ", ";", " ", "\"", "M", "\"", " ", ";", " ",
               "\"", "OK", "\"">>),
     Bracket("Insert from URL",
             <<"Target:", " ", "$r", " ", ";", " ", "URL:", " ",
               "\"", "u", ";", "v", "\"">>)}

Remainders ==
    CodecLines
    \cup SemicolonLines
    \cup {LineBogus, LineBadSetVar, LineDisabledLoop, LineDisabledBogus,
          <<>>, <<" ">>, <<" ", " ">>, <<" ", "Loop">>}

Markers == {<<>>, <<"//", " ">>, <<"//">>}

InitLine ==
    /\ pc = "line"
    /\ \E marker \in Markers, remainder \in Remainders :
          lines = <<marker \o remainder>>
    /\ parse_state = ParseStart
    /\ steps = <<>>
    /\ block_stack = <<>>
    /\ errors = <<>>
    /\ warnings = <<>>
    /\ xml = NoXml
    /\ written = NoXml
    /\ reported = NoReport
    /\ decoded = <<>>
    /\ reparsed = NoStep

\* parse_line(line, 1)
RecognizeLine ==
    /\ pc = "line"
    /\ reparsed' = parse_line(lines[1], 1)
    /\ pc' = "recognized"
    /\ UNCHANGED <<parse_vars, steps, validate_vars, xml, written, reported, decoded>>

\* parse_text(line)
ParseLine ==
    /\ pc = "recognized"
    /\ parse_state' = parse_finish(read_line(ParseStart, 1, lines[1]))
    /\ steps' = parse_state'.steps
    /\ pc' = "line_parsed"
    /\ UNCHANGED <<lines, validate_vars, output_vars>>

NextLine == RecognizeLine \/ ParseLine

SpecLine == InitLine /\ [][NextLine]_vars

(***************************************************************************)
(* _count_delimiters and _split_params on the same string: `lines` holds   *)
(* the string, `reparsed` what the two calls returned.                     *)
(***************************************************************************)
ScanChars == {"(", ")", "[", "\"", "\\", ";", "a"}

RECURSIVE ScanStrings(_)
\* The strings of at most n characters
ScanStrings(n) ==
    IF n = 0 THEN {<<>>}
    ELSE ScanStrings(n - 1)
         \cup {Append(t, ch) : t \in {u \in ScanStrings(n - 1) : Len(u) = n - 1},
                              ch \in ScanChars}

InitScan ==
    /\ pc = "scan"
    /\ \E text \in ScanStrings(MaxChars) : lines = <<text>>
    /\ parse_state = ParseStart
    /\ steps = <<>>
    /\ block_stack = <<>>
    /\ errors = <<>>
    /\ warnings = <<>>
    /\ xml = NoXml
    /\ written = NoXml
    /\ reported = NoReport
    /\ decoded = <<>>
    /\ reparsed = NoStep

\* _count_delimiters(text)
ScanBalance ==
    /\ pc = "scan"
    /\ reparsed' = [kind |-> "deltas", deltas |-> _count_delimiters(lines[1])]
    /\ pc' = "balanced"
    /\ UNCHANGED <<parse_vars, steps, validate_vars, xml, written, reported, decoded>>

\* _split_params(text): the parts and the loop's state at its end
ScanSplit ==
    /\ pc = "balanced"
    /\ reparsed' = [kind |-> "split", deltas |-> reparsed.deltas,
                    parts |-> _split_params(lines[1]),
                    scan |-> split_scan(lines[1])]
    /\ pc' = "split"
    /\ UNCHANGED <<parse_vars, steps, validate_vars, xml, written, reported, decoded>>

NextScan == ScanBalance \/ ScanSplit

SpecScan == InitScan /\ [][NextScan]_vars

(***************************************************************************)
(* Block lines in any order, nested well or not, parsed, encoded and       *)
(* decompiled.                                                             *)
(***************************************************************************)
\* Else If [ a ]
LineElseIf == Bracket("Else If", <<"a">>)

\* Perform Find
LinePerformFind == <<"Perform Find">>

NestPool ==
    {LineIf, LineElseIf, LineElse, LineEndIf, LineLoop, LineEndLoop,
     LinePerformFind}

NestReadLine ==
    /\ pc = "parse"
    /\ Len(lines) < MaxNest
    /\ \E line \in NestPool :
          /\ lines' = Append(lines, line)
          /\ parse_state' = read_line(parse_state, Len(lines) + 1, line)
    /\ UNCHANGED <<pc, steps, validate_vars, output_vars>>

NextNest ==
    NestReadLine \/ ParseFinish \/ CommentsGenerate \/ CommentsDecompile

SpecNest == InitParse /\ [][NextNest]_vars

(***************************************************************************)
(* parse_text on longer texts of blank lines, lines that open a statement, *)
(* lines that close one and whole statements.                              *)
(***************************************************************************)
SegmentPool ==
    {LineBlank, LineIfOpen, LineClose, LineAtom, LineBogus}

SegmentReadLine ==
    /\ pc = "parse"
    /\ Len(lines) < MaxSegment
    /\ \E line \in SegmentPool :
          /\ lines' = Append(lines, line)
          /\ parse_state' = read_line(parse_state, Len(lines) + 1, line)
    /\ UNCHANGED <<pc, steps, validate_vars, output_vars>>

NextSegment == SegmentReadLine \/ ParseFinish

SpecSegment == InitParse /\ [][NextSegment]_vars

(***************************************************************************)
(* Block lines, enabled and disabled, with ordinary lines between them,    *)
(* through the whole route: parsed, validated, and when the validator      *)
(* accepts them encoded, written and decompiled.                           *)
(***************************************************************************)
\* // End Loop
LineDisabledEndLoop == <<"//", " ", "End Loop">>

\* // Else
LineDisabledElse == <<"//", " ", "Else">>

BlockPool ==
    {LineIf, LineElseIf, LineElse, LineEndIf, LineLoop, LineEndLoop,
     LineDisabledLoop, LineDisabledEndLoop, LineDisabledElse,
     LinePerformFind, LineSetField, LineComment}

BlockReadLine ==
    /\ pc = "compose"
    /\ Len(lines) < MaxBlock
    /\ \E line \in BlockPool :
          /\ lines' = Append(lines, line)
          /\ parse_state' = read_line(parse_state, Len(lines) + 1, line)
    /\ UNCHANGED <<pc, steps, validate_vars, output_vars>>

NextBlock ==
    \/ BlockReadLine
    \/ ComposeParse
    \/ ComposeValidate
    \/ ComposeGenerate
    \/ ComposeWrite
    \/ ComposeDecompile

SpecBlock == InitCompose /\ [][NextBlock]_vars

(***************************************************************************)
(* decompile_xml on a document: an envelope of Step elements, some as      *)
(* generate_xml writes them, well-formed or not, some from elsewhere.      *)
(***************************************************************************)
\* <Step enable="True" id="6" name="Go to Layout">...<Layout id="0" name="A&B">
ElemBadAttr ==
    step_to_xml(ParsedStep("go_to_layout",
                           [layout |-> <<"\"", "A", "&", "B", "\"">>], 1, TRUE))

\* <Step enable="True" id="68" name="If">...<![CDATA[a ]]> b]]>
ElemBadCdata ==
    step_to_xml(ParsedStep("if", [calc |-> <<"a", " ", "]", "]", ">", " ", "b">>],
                           1, TRUE))

\* <Step enable="True" id="999" name="Foo"></Step>
ElemUnknownId == StepEl("999", <<"Foo">>, <<>>)

\* <Step enable="False" id="71" name="Loop">
ElemDisabledLoop == DisableFirst(step_to_xml(ParsedStep("loop", NoParams, 1, FALSE)))

\* <Step enable="True" id="68" name="If">
ElemIf == step_to_xml(ParsedStep("if", [calc |-> <<"a">>], 1, TRUE))

\* <Step enable="True" id="125" name="Set Field"></Step>
ElemSetField125 == StepEl("125", <<"Set Field">>, <<>>)

\* <Step enable="True" id="70" name="Fin Si"></Step>
ElemEndIfOtherName == StepEl("70", <<"Fin Si">>, <<>>)

ElemPool ==
    {ElemBadAttr, ElemBadCdata, ElemUnknownId, ElemDisabledLoop,
     ElemIf, ElemSetField125, ElemEndIfOtherName,
     step_to_xml(ParsedStep("comment", [text |-> <<"a", "\n", "b">>], 1, TRUE)),
     step_to_xml(ParsedStep("end_loop", NoParams, 1, TRUE))}

RECURSIVE ElemLists(_)
\* The lists of at most n elements
ElemLists(n) ==
    IF n = 0 THEN {<<>>}
    ELSE ElemLists(n - 1)
         \cup {Append(es, e) : es \in {l \in ElemLists(n - 1) : Len(l) = n - 1},
                              e \in ElemPool}

InitXml ==
    /\ pc = "generated"
    /\ \E kids \in ElemLists(MaxElems) :
          xml = El("fmxmlsnippet", <<At("type", <<"FMObjectList">>)>>, <<>>, FALSE, kids)
    /\ lines = <<>>
    /\ parse_state = ParseStart
    /\ steps = <<>>
    /\ block_stack = <<>>
    /\ errors = <<>>
    /\ warnings = <<>>
    /\ written = NoXml
    /\ reported = NoReport
    /\ decoded = <<>>
    /\ reparsed = NoStep

NextXml == CommentsDecompile

SpecXml == InitXml /\ [][NextXml]_vars

(***************************************************************************)
(* Properties of the validator                                             *)
(***************************************************************************)
StepTypesOf(ss) == [k \in 1..Len(ss) |-> ss[k].step_type]

LastStep == steps[Len(steps)]

\* A step of one of `types` has just been read by the for loop.
JustRead(types) ==
    /\ pc = "validate" /\ pc' = "validate"
    /\ steps' # steps
    /\ steps'[Len(steps')].step_type \in types

\* Exactly one error was appended by the step just read, on its line.
OneErrorAdded ==
    /\ Len(errors') = Len(errors) + 1
    /\ SubSeq(errors', 1, Len(errors)) = errors
    /\ errors'[Len(errors')].line = steps'[Len(steps')].line_num

MismatchedEndLoop(ln, block, opened) ==
    [line |-> ln, level |-> "ERROR",
     msg |-> "End Loop found but current open block is",
     block |-> block, opened |-> opened]

UnclosedError(block, opened) ==
    [line |-> opened, level |-> "ERROR", msg |-> "Unclosed - missing End",
     block |-> block, opened |-> 0]

IfThenEndLoop ==
    pc = "validated" /\ StepTypesOf(steps) = <<"if", "end_loop">>

\* C1 as stated: for If (line 1), End Loop (line 2) the error list has exactly
\* one entry, the mismatched-closer error.
C1_ExactlyOneError ==
    IfThenEndLoop => errors = <<MismatchedEndLoop(2, "If", 1)>>

\* C1 as amended: for If (line 1), End Loop (line 2) the error list has
\* exactly two entries: the mismatched-closer error "End Loop found but
\* current open block is If (opened line 1)" on line 2, then the error
\* "Unclosed If - missing End If" on line 1, the If still being open.
C1_MismatchThenUnclosed ==
    IfThenEndLoop =>
        errors = <<MismatchedEndLoop(2, "If", 1), UnclosedError("If", 1)>>

C1_Witness == IfThenEndLoop /\ Len(errors) = 2

IsUnclosed(e) == e.msg = "Unclosed - missing End"

\* C2: once the whole sequence is processed there is exactly one Unclosed
\* error per frame left on the block stack, in stack order, each naming the
\* frame's kind and the line of the step that opened it.
C2_OneUnclosedPerOpenFrame ==
    pc = "validated" =>
        LET U == SelectSeq(errors, IsUnclosed)
        IN  /\ Len(U) = Len(block_stack)
            /\ \A k \in 1..Len(block_stack) :
                  /\ U[k] = UnclosedError(Title(block_stack[k].type),
                                          block_stack[k].line)
                  /\ steps[U[k].line].step_type = block_stack[k].type

C2_Witness ==
    /\ pc = "validated"
    /\ Len(block_stack) = 3
    /\ block_stack[1].type = "loop" /\ block_stack[2].type = "if"
    /\ block_stack[1].line = 2 /\ block_stack[3].line = 5
    /\ Len(errors) = 4

\* The if block a step on top of `stack` lies in (the innermost open if
\* frame) has its else already.
NearestIfHasElse(stack) ==
    \E k \in 1..Len(stack) :
        /\ stack[k].type = "if" /\ stack[k].has_else
        /\ \A j \in (k + 1)..Len(stack) : stack[j].type # "if"

StructuralElseErrors ==
    {"Else If without matching If", "Else If after Else (must come before Else)",
     "Else without matching If", "Duplicate Else - only one Else per If block"}

\* C3: every else / else_if step read while the innermost open if block
\* already has its else appends one structural error on that step's line,
\* on every such occurrence.
C3_ElseAfterElseAlwaysError ==
    [][(JustRead({"else", "else_if"}) /\ NearestIfHasElse(block_stack))
          => (OneErrorAdded /\ errors'[Len(errors')].msg \in StructuralElseErrors)]_vars

C3_Witness ==
    /\ pc = "validate"
    /\ StepTypesOf(steps) = <<"if", "else", "else", "else_if", "else">>
    /\ Len(errors) = 3
    /\ errors[2].msg = "Else If after Else (must come before Else)"
    /\ errors[3].line = 5

NoIfOpen(stack) == \A k \in 1..Len(stack) : stack[k].type # "if"

OrphanForms ==
    {"Else If without matching If", "Else without matching If",
     "Orphan End If - no matching If"}

\* C4 as stated: every else_if, else or end_if step read while no if block
\* is open (the stack is empty or holds loops only) appends an error of the
\* orphan / without-matching-If form.
C4_AlwaysOrphanForm ==
    [][(JustRead({"else_if", "else", "end_if"}) /\ NoIfOpen(block_stack))
          => (OneErrorAdded /\ errors'[Len(errors')].msg \in OrphanForms)]_vars

\* C4 as amended: every else_if, else or end_if step read while no if block
\* is open appends exactly one error on its line: for else_if and else the
\* "without matching If" error; for end_if the "Orphan End If" error when the
\* stack is empty and, when only loops are open, the mismatched-closer error
\* "End If found but current open block is Loop (opened line N)" naming the
\* innermost loop's opening line.
C4_OrphanOrMismatch ==
    [][(JustRead({"else_if", "else", "end_if"}) /\ NoIfOpen(block_stack))
          => /\ OneErrorAdded
             /\ LET e == errors'[Len(errors')]
                    st == steps'[Len(steps')].step_type
                IN  CASE st = "else_if" -> e.msg = "Else If without matching If"
                      [] st = "else" -> e.msg = "Else without matching If"
                      [] OTHER ->
                           IF Len(block_stack) = 0
                           THEN e.msg = "Orphan End If - no matching If"
                           ELSE /\ e.msg = "End If found but current open block is"
                                /\ e.block = "Loop"
                                /\ e.opened = Top(block_stack).line
                                /\ steps[e.opened].step_type = "loop"]_vars

C4_Witness ==
    /\ pc = "validate"
    /\ StepTypesOf(steps) = <<"end_if", "loop", "loop", "end_if", "else">>
    /\ Len(errors) = 3
    /\ errors[1].msg = "Orphan End If - no matching If"
    /\ errors[2].opened = 3
    /\ errors[3].msg = "Else without matching If"

\* The stack after a step of the kind on line ln, by the rule of the frames
StackAfter(st, ln, stack) ==
    CASE st \in {"if", "loop"} ->
           Append(stack, [type |-> st, line |-> ln, has_else |-> FALSE])
      [] st = "end_if" ->
           IF Len(stack) > 0 /\ stack[Len(stack)].type = "if"
           THEN SubSeq(stack, 1, Len(stack) - 1) ELSE stack
      [] st = "end_loop" ->
           IF Len(stack) > 0 /\ stack[Len(stack)].type = "loop"
           THEN SubSeq(stack, 1, Len(stack) - 1) ELSE stack
      [] st = "else" ->
           IF Len(stack) > 0 /\ stack[Len(stack)].type = "if"
              /\ ~stack[Len(stack)].has_else
           THEN [stack EXCEPT ![Len(stack)].has_else = TRUE] ELSE stack
      [] OTHER -> stack

\* A step that reads one more step changes the stack by the rule; any other
\* step leaves it as it is.
StackEffect ==
    IF steps' # steps
    THEN /\ Len(steps') = Len(steps) + 1
         /\ block_stack' = StackAfter(steps'[Len(steps')].step_type,
                                      steps'[Len(steps')].line_num, block_stack)
    ELSE block_stack' = block_stack

\* C21: in validate_structure the block stack changes only so: if and loop
\* push one frame with has_else false; end_if / end_loop pop exactly when the
\* top frame is of the matching kind; else on an if frame without else sets
\* that frame's has_else; every other case leaves the stack unchanged, so a
\* mismatched closer does not close the block it names.
C21_StackChangesOnlyByRule == [][StackEffect]_vars

\* Loop, If, Else, End Loop: the mismatched End Loop left both frames open,
\* the if frame with its else recorded.
C21_Witness ==
    /\ pc = "validate"
    /\ StepTypesOf(steps) = <<"loop", "if", "else", "end_loop">>
    /\ block_stack = <<BlockFrame("loop", 1, FALSE), BlockFrame("if", 2, TRUE)>>

IsOutsideLoop(e) == e.msg = "Exit Loop If outside of any Loop"

\* Some frame of the stack, at any depth, is a loop frame
SomeLoopFrame(stack) == \E k \in 1..Len(stack) : stack[k].type = "loop"

\* An exit_loop_if step adds the 'outside of any Loop' error, on its line,
\* exactly when no frame of the stack is a loop frame; no other step adds it.
ExitLoopIfEffect ==
    (steps' # steps) =>
        IF steps'[Len(steps')].step_type = "exit_loop_if" /\ ~SomeLoopFrame(block_stack)
        THEN /\ Len(errors') = Len(errors) + 1
             /\ SubSeq(errors', 1, Len(errors)) = errors
             /\ IsOutsideLoop(errors'[Len(errors')])
             /\ errors'[Len(errors')].line = steps'[Len(steps')].line_num
        ELSE \A k \in (Len(errors) + 1)..Len(errors') : ~IsOutsideLoop(errors'[k])

\* C22: for every step sequence, an exit_loop_if step yields an 'outside of
\* any Loop' error if and only if no frame anywhere on the block stack at
\* that point is a loop frame; a loop frame below one or more if frames
\* makes it legal.
C22_ExitLoopIfNeedsAnyLoopFrame == [][ExitLoopIfEffect]_vars

\* Loop, If, If, Exit Loop If: legal under two if frames.
C22_Witness ==
    /\ pc = "validate"
    /\ StepTypesOf(steps) = <<"loop", "if", "if", "exit_loop_if">>
    /\ errors = <<>>
    /\ Len(block_stack) = 3

(***************************************************************************)
(* Properties of the compose pipeline                                      *)
(***************************************************************************)
Succeeded == pc \in {"valid", "generated", "done", "decompiled"}

Failed == pc = "exit_1"

ErrorOf(result) == IF result.kind = "error" THEN <<result.error>> ELSE <<>>

\* The recognition errors of the raw lines ls[k..], each line being a whole
\* statement: one entry for every line parse_line does not recognize.
RECURSIVE UnrecognizedLines(_, _)
UnrecognizedLines(ls, k) ==
    IF k > Len(ls) THEN <<>>
    ELSE ErrorOf(parse_line(ls[k], k)) \o UnrecognizedLines(ls, k + 1)

HasUnrecognized == UnrecognizedLines(lines, 1) # <<>>

AllStructuralErrors == validate_structure(steps).errors

\* The line numbers of the steps that close or continue a block
RECURSIVE CloserLines(_)
CloserLines(ss) ==
    IF Len(ss) = 0 THEN <<>>
    ELSE (IF ss[1].step_type \in {"else_if", "else", "end_if", "end_loop", "exit_loop_if"}
          THEN <<ss[1].line_num>> ELSE <<>>) \o CloserLines(Tail(ss))

NoOpener == \A k \in 1..Len(steps) : steps[k].step_type \notin {"if", "loop"}

LinesOf(errs) == [k \in 1..Len(errs) |-> errs[k].line]

\* C5: XML is generated only when the recognition error list and the
\* structural error list are both empty; a run with a non-empty list ends in
\* the failure state with no XML produced or written, and the list it reports
\* has an entry for every unrecognized line, or for every nesting violation,
\* of the whole input.
C5_ErrorsBlockXml ==
    /\ (xml # NoXml \/ written # NoXml) => (parse_state.errors = <<>> /\ errors = <<>>)
    /\ Succeeded => (parse_state.errors = <<>> /\ errors = <<>>)
    /\ Failed =>
          /\ xml = NoXml /\ written = NoXml
          /\ reported.parse_errors # <<>> \/ reported.errors # <<>>
    /\ (pc # "compose" /\ HasUnrecognized) =>
          /\ Failed
          /\ reported.parse_errors = UnrecognizedLines(lines, 1)
    /\ (pc \notin {"compose", "parsed_ok"} /\ ~HasUnrecognized
           /\ AllStructuralErrors # <<>>) =>
          /\ Failed
          /\ reported.errors = AllStructuralErrors
    /\ (Failed /\ ~HasUnrecognized /\ NoOpener) =>
          LinesOf(reported.errors) = CloserLines(steps)

\* `Bogus`, a good Set Variable and `Set Variable [ $x ]`: the run failed
\* and reported lines 1 and 3.
C5_Witness ==
    /\ Failed
    /\ lines = <<LineBogus, LineSetVar, LineBadSetVar>>
    /\ LinesOf(reported.parse_errors) = <<1, 3>>
    /\ xml = NoXml /\ written = NoXml

\* C6 as stated: a run over an input with both an unrecognized line and a
\* nesting violation reports both the recognition error and the structural
\* error.
C6_BothSurfaced ==
    (Failed /\ HasUnrecognized /\ AllStructuralErrors # <<>>) =>
        (reported.parse_errors # <<>> /\ reported.errors # <<>>)

\* C6 as amended: a run over an input with an unrecognized line reports every
\* recognition error and stops before the validator runs, so no structural
\* error or warning is reported in that run; a run over an input without one
\* reports every structural error and every warning together.
C6_RecognitionErrorsStopRun ==
    /\ (Failed /\ HasUnrecognized) =>
          /\ reported = [parse_errors |-> UnrecognizedLines(lines, 1),
                         errors |-> <<>>, warnings |-> <<>>]
          /\ errors = <<>> /\ warnings = <<>>
    /\ ((Failed \/ Succeeded) /\ ~HasUnrecognized) =>
          reported = [parse_errors |-> <<>>,
                      errors |-> AllStructuralErrors,
                      warnings |-> validate_structure(steps).warnings]

\* `Bogus` then an orphan `End If`: the run failed reporting the recognition
\* error alone.
C6_Witness ==
    /\ Failed
    /\ lines = <<LineBogus, LineEndIf>>
    /\ AllStructuralErrors # <<>>
    /\ Len(reported.parse_errors) = 1
    /\ reported.errors = <<>>

NoStepsWarning ==
    [line |-> 0, level |-> "WARN", msg |-> "No steps found - is the input empty?"]

EmptyEnvelope ==
    El("fmxmlsnippet", <<At("type", <<"FMObjectList">>)>>, <<>>, FALSE, <<>>)

\* From the valid state the run goes on to generate_xml.
ValidProceeds ==
    (pc = "valid" /\ pc' # pc) => (pc' = "generated" /\ xml' = generate_xml(steps))

\* C7: validity is decided by the error list alone and warnings never block
\* success: for an empty step sequence the validator gives the 'no steps'
\* warning and no error, the run is valid, and it goes on to generate the
\* empty envelope.
C7_WarningsNeverBlock ==
    /\ [](/\ Succeeded => errors = <<>>
          /\ (Failed /\ reported.parse_errors = <<>>) => errors # <<>>
          /\ warnings # <<>> => (Succeeded /\ errors = <<>>)
          /\ (Succeeded /\ steps = <<>>) =>
                (warnings = <<NoStepsWarning>> /\ reported.warnings = warnings)
          /\ (pc = "parsed_ok" /\ steps = <<>>) =>
                /\ validate_structure(steps).warnings = <<NoStepsWarning>>
                /\ is_valid(validate_structure(steps).errors)
          /\ (pc \in {"generated", "done", "decompiled"} /\ steps = <<>>) =>
                xml = EmptyEnvelope
          /\ (pc \in {"done", "decompiled"} /\ steps = <<>>) =>
                written = EmptyEnvelope)
    /\ [][ValidProceeds]_vars

\* A blank input: the warning was given and the empty envelope written.
C7_Witness ==
    /\ pc = "done"
    /\ lines = <<LineBlank>>
    /\ steps = <<>>
    /\ warnings = <<NoStepsWarning>>
    /\ errors = <<>>
    /\ written = EmptyEnvelope

(***************************************************************************)
(* Properties of the codec                                                 *)
(***************************************************************************)
\* The parameters the grammar of each kind requires
RequiredKeys(step_type) ==
    CASE step_type = "comment" -> {"text"}
      [] step_type \in {"set_error_capture", "allow_user_abort"} -> {"state"}
      [] step_type = "set_variable" -> {"name", "value"}
      [] step_type = "set_field_by_name" -> {"target", "value"}
      [] step_type = "set_field" -> {"field", "value"}
      [] step_type \in {"if", "else_if", "exit_loop_if"} -> {"calc"}
      [] step_type = "show_custom_dialog" -> {"title", "message"}
      [] step_type = "perform_script" -> {"script_name"}
      [] step_type = "go_to_layout" -> {"layout"}
      [] step_type = "go_to_record" -> {"direction"}
      [] OTHER -> {}

\* A parameter value up to whitespace and outer quotes
Canon(key, value) ==
    IF key \in {"no_dialog", "pause"} THEN value
    ELSE IF key = "buttons" THEN StripAll(value)
    ELSE IF key \in {"script_name", "layout"} THEN _strip_outer_quotes(value)
    ELSE strip(value)

SameOn(keys, a, b) ==
    /\ a.step_type = b.step_type
    /\ \A key \in keys :
          /\ key \in DOMAIN b.params
          /\ Canon(key, a.params[key]) = Canon(key, b.params[key])

\* The step the codec started from
Original == parse_line(lines[1], 1).step

\* C8 as stated: decoding the element produced by encoding a step of a
\* supported kind yields a step of the same kind with the same value for
\* every required parameter.
C8_RoundTrip ==
    pc = "reparsed" =>
        /\ IsStep(reparsed)
        /\ SameOn(RequiredKeys(Original.step_type), Original, reparsed.step)

SameSteps(orig, r) ==
    /\ r.errors = <<>>
    /\ Len(r.steps) = Len(orig)
    /\ \A k \in 1..Len(orig) :
          /\ SameOn(DOMAIN orig[k].params, orig[k], r.steps[k])
          /\ orig[k].enabled = r.steps[k].enabled

\* C9 as stated: for a text of supported kinds and valid nesting,
\* decompile_xml(generate_xml(parse_text(text))) reads back as the same
\* instructions: as many, in the same order, each with the same keyword,
\* parameters and enabled state.
C9_Idempotent ==
    pc = "decompiled" => SameSteps(parse_state.steps, parse_text(decoded))

(***************************************************************************)
(* Properties of the comment merge                                         *)
(***************************************************************************)
IsComment(result) == IsStep(result) /\ result.step.step_type = "comment"

\* Every raw line is a comment line, all in the enabled state of the first
IsCommentRun(ls) ==
    /\ Len(ls) >= 1
    /\ \A k \in 1..Len(ls) :
          /\ IsComment(parse_line(ls[k], k))
          /\ parse_line(ls[k], k).step.enabled = parse_line(ls[1], 1).step.enabled

\* t1..tN
CommentTexts(ls) == [k \in 1..Len(ls) |-> parse_line(ls[k], k).step.params.text]

\* The one comment step the run is to give
MergedComment(ls) ==
    ParsedStep("comment", [text |-> Join(CommentTexts(ls), <<"\n">>)], 1,
               parse_line(ls[1], 1).step.enabled)

\* The line leaves no parenthesis or bracket open
ClosedLine(line) ==
    /\ _count_delimiters(strip(line))[1] <= 0
    /\ _count_delimiters(strip(line))[2] <= 0

\* C11 as stated: every run of consecutive comment lines in one enabled
\* state, whatever the comment texts, parses to exactly one comment step
\* whose text is the texts joined by newlines in order.
C11_AnyCommentRunMerges ==
    (pc = "parsed" /\ IsCommentRun(lines)) =>
        (steps = <<MergedComment(lines)>> /\ parse_state.errors = <<>>)

\* C11 as amended: every run of consecutive comment lines in one enabled
\* state none of which leaves a parenthesis or bracket open parses to
\* exactly one comment step whose text is the texts joined by newlines in
\* order.
C11_ClosedCommentRunMerges ==
    (pc = "parsed" /\ IsCommentRun(lines)
        /\ \A k \in 1..Len(lines) : ClosedLine(lines[k])) =>
        (steps = <<MergedComment(lines)>> /\ parse_state.errors = <<>>)

\* `# a`, `#`, `# b` became one comment with text a, empty, b.
C11_Witness ==
    /\ pc = "parsed"
    /\ lines = <<LineComment, LineCommentEmpty, LineCommentB>>
    /\ steps = <<ParsedStep("comment", [text |-> <<"a", "\n", "\n", "b">>], 1, TRUE)>>

\* Two comments in one enabled state
Mergeable(a, b) ==
    /\ a.step_type = "comment" /\ b.step_type = "comment"
    /\ a.enabled = b.enabled

\* The i-th step begins a run: it is the first step, or it is not a comment
\* directly after a comment in the same enabled state
RunStart(ss, i) == i = 1 \/ ~Mergeable(ss[i - 1], ss[i])

\* The number of runs that begin at or before the i-th step
RunsUpTo(ss, i) == Cardinality({j \in 1..i : RunStart(ss, j)})

\* The step at which the k-th run begins, and the one at which it ends
RunFirst(ss, k) == CHOOSE i \in 1..Len(ss) : RunStart(ss, i) /\ RunsUpTo(ss, i) = k
RunLast(ss, k) ==
    CHOOSE i \in 1..Len(ss) :
        /\ RunsUpTo(ss, i) = k
        /\ (i = Len(ss) \/ RunStart(ss, i + 1))

\* The texts of the steps from the i-th to the j-th
StepTexts(ss, i, j) == [n \in 1..(j - i + 1) |-> ss[i + n - 1].params.text]

\* out is what the merge is to make of ss: one step per run, in order; a
\* step that is no comment as it was; a comment with the line number and
\* enabled state of the first comment of its run and the texts of the run
\* joined by newlines; and no two neighbours left that could be merged
MergedByRuns(ss, out) ==
    /\ Len(out) = RunsUpTo(ss, Len(ss))
    /\ \A k \in 1..Len(out) :
          IF ss[RunFirst(ss, k)].step_type # "comment"
          THEN /\ out[k] = ss[RunFirst(ss, k)]
               /\ RunLast(ss, k) = RunFirst(ss, k)
          ELSE /\ out[k].step_type = "comment"
               /\ out[k].line_num = ss[RunFirst(ss, k)].line_num
               /\ out[k].enabled = ss[RunFirst(ss, k)].enabled
               /\ out[k].params.text =
                      Join(StepTexts(ss, RunFirst(ss, k), RunLast(ss, k)), <<"\n">>)
    /\ \A k \in 2..Len(out) : ~Mergeable(out[k - 1], out[k])
    /\ SelectSeq(out, LAMBDA x : x.step_type # "comment")
          = SelectSeq(ss, LAMBDA x : x.step_type # "comment")

\* The end of input merges the steps recognized so far by runs
MergeEffect ==
    (pc = "parse" /\ pc' = "parsed") =>
        /\ MergedByRuns(flush(parse_state).steps, steps')
        /\ parse_state'.steps = steps'

\* C27: after _merge_comments no two adjacent steps of the output are both
\* comments in the same enabled state; comments separated by a non-comment
\* step or differing in enabled state are never merged; the non-comment
\* steps appear unchanged and in their original order; and each merged
\* comment keeps the line number of the first comment of its run.
C27_MergeIsByRuns == [][MergeEffect]_vars

\* `# a`, `# b`, `Loop` and `// # a`: the first two merged into a comment
\* of line 1, the Loop as it was, and the disabled comment after it on its
\* own.
C27_Witness ==
    /\ pc = "parsed"
    /\ lines = <<LineComment, LineCommentB, LineLoop, LineDisabledComment>>
    /\ Len(steps) = 3
    /\ steps[1] = ParsedStep("comment", [text |-> <<"a", "\n", "b">>], 1, TRUE)
    /\ steps[2].step_type = "loop" /\ steps[2].line_num = 3
    /\ steps[3].step_type = "comment" /\ ~steps[3].enabled /\ steps[3].line_num = 4

\* The run re-emitted: one `# ` line per source comment, at the level
ReemittedLines(run, level) ==
    [k \in 1..Len(run) |->
        Pad(level)
        \o (IF parse_line(run[1], 1).step.enabled THEN <<>> ELSE <<"//", " ">>)
        \o <<"#", " ">> \o CommentTexts(run)[k]]

\* The input is `level` Loop lines and then a run of comment lines that
\* parsed to the Loop steps and one comment merged from the run
MergedRunAt(run, level) ==
    /\ \A k \in 1..level : lines[k] = LineLoop
    /\ IsCommentRun(run)
    /\ Len(steps) = level + 1
    /\ steps[level + 1].step_type = "comment"
    /\ steps[level + 1].params.text = Join(CommentTexts(run), <<"\n">>)

\* C12: a comment step merged from N source comment lines, encoded and
\* decompiled, is re-emitted as exactly N lines, each `# ` at the current
\* indentation, the i-th carrying the i-th source comment's text, empty
\* source comments included.
C12_MergedCommentReemitted ==
    \A level \in 0..1 :
        (pc = "decompiled" /\ Len(lines) > level
            /\ MergedRunAt(SubSeq(lines, level + 1, Len(lines)), level)) =>
            decoded = Join([k \in 1..level |-> LineLoop]
                           \o ReemittedLines(SubSeq(lines, level + 1, Len(lines)), level),
                           <<"\n">>)

\* C12 away from the failing inputs: the same for runs that neither begin
\* nor end with an empty comment.
C12_InnerEmptyReemitted ==
    \A level \in 0..1 :
        (pc = "decompiled" /\ Len(lines) > level
            /\ lines[level + 1] # LineCommentEmpty
            /\ lines[Len(lines)] # LineCommentEmpty
            /\ MergedRunAt(SubSeq(lines, level + 1, Len(lines)), level)) =>
            decoded = Join([k \in 1..level |-> LineLoop]
                           \o ReemittedLines(SubSeq(lines, level + 1, Len(lines)), level),
                           <<"\n">>)

(***************************************************************************)
(* Properties of the dialog encoding                                       *)
(***************************************************************************)
\* The three slots for the buttons given: the first three in order, an
\* empty Button element for each one missing or empty
DialogSlots(given) ==
    [k \in 1..3 |->
        IF k <= Len(given) /\ given[k] # <<>>
        THEN El("Button", <<>>, <<>>, FALSE,
                <<El("Calculation", <<>>, given[k], TRUE, <<>>)>>)
        ELSE El("Button", <<>>, <<>>, FALSE, <<>>)]

\* C13: every show_custom_dialog step, whatever the number of buttons given
\* (none to more than three), encodes to a Step with exactly 3 Button slots:
\* the first three given buttons in order, then empty Button elements.
C13_ThreeButtonSlots ==
    [][(pc = "encode" /\ pc' = "encoded"
            /\ steps[1].step_type = "show_custom_dialog") =>
        /\ xml'.kids[1].tag = "Step"
        /\ AttrGet(xml'.kids[1], "id", <<>>) = <<"87">>
        /\ xml'.kids[1].kids[3].tag = "Buttons"
        /\ xml'.kids[1].kids[3].kids = DialogSlots(steps[1].params.buttons)]_vars

\* Four buttons were given and three slots encoded, or the buttons "OK" and
\* "Cancel" were encoded with the third slot empty.
C13_Witness ==
    /\ pc = "encoded"
    /\ steps[1].step_type = "show_custom_dialog"
    /\ \/ /\ Len(steps[1].params.buttons) = 4
          /\ Len(xml.kids[1].kids[3].kids) = 3
          /\ steps[1].params.buttons[4] = ButtonCancel
       \/ /\ steps[1].params.buttons = <<ButtonOK, ButtonCancel, <<>>>>
          /\ xml.kids[1].kids[3].kids = DialogSlots(<<ButtonOK, ButtonCancel>>)

\* The encoding call leaves the steps as they were
EncodeLeavesSteps == (pc = "encode" /\ pc' = "encoded") => steps' = steps

\* C24: encoding is a pure function of its input: step_to_xml and
\* generate_xml leave every step's kind, params (the show_custom_dialog
\* buttons list included) and enabled flag exactly as they were before the
\* call.
C24_EncodingLeavesStepsUnchanged == [][EncodeLeavesSteps]_vars

\* C24 away from the failing inputs: the call leaves a step with three or
\* more buttons as it was, and of every step the kind, the enabled flag, the
\* title and the message.
C24_FullButtonListsUnchanged ==
    [][(pc = "encode" /\ pc' = "encoded") =>
        /\ Len(steps') = Len(steps)
        /\ steps'[1].step_type = steps[1].step_type
        /\ steps'[1].enabled = steps[1].enabled
        /\ steps'[1].line_num = steps[1].line_num
        /\ steps'[1].params.title = steps[1].params.title
        /\ steps'[1].params.message = steps[1].params.message
        /\ Len(steps[1].params.buttons) >= 3 => steps' = steps]_vars

(***************************************************************************)
(* Properties of the disable marker                                        *)
(***************************************************************************)
\* The line is the disable marker `// ` followed by a remainder
IsMarked(line) == Len(line) >= 2 /\ line[1] = "//" /\ line[2] = " "

Remainder(line) == SubSeq(line, 3, Len(line))

\* result is what the marker makes of the remainder's result
DisabledOf(inner, result) ==
    /\ IsStep(inner) => result = AStep([inner.step EXCEPT !.enabled = FALSE])
    /\ inner.kind = "error" => (result.kind = "error" /\ ~IsStep(result))

\* The same in the lists of parse_text
DisabledInLists(inner, st) ==
    /\ IsStep(inner) =>
          (st.steps = <<[inner.step EXCEPT !.enabled = FALSE]>> /\ st.errors = <<>>)
    /\ inner.kind = "error" => (st.steps = <<>> /\ Len(st.errors) = 1)

\* C14: for every logical line `// ` followed by a remainder R: if R is
\* recognized as a step S the result is S with the same kind and parameters
\* and enabled=false; if R is unrecognized the result is a recognition
\* error, never a step.
C14_MarkerDisablesRemainder ==
    /\ (pc \in {"recognized", "line_parsed"} /\ IsMarked(lines[1])) =>
          DisabledOf(parse_line(Remainder(lines[1]), 1), reparsed)
    /\ (pc = "line_parsed" /\ IsMarked(lines[1])) =>
          DisabledInLists(parse_line(Remainder(lines[1]), 1), parse_state)

\* `// If [ a ]` was recognized as a disabled if step, or `// Bogus` as a
\* recognition error.
C14_Witness ==
    /\ pc = "line_parsed"
    /\ \/ /\ lines[1] = <<"//", " ">> \o Bracket("If", <<"a">>)
          /\ reparsed = AStep(ParsedStep("if", [calc |-> <<"a">>], 1, FALSE))
          /\ steps = <<ParsedStep("if", [calc |-> <<"a">>], 1, FALSE)>>
       \/ /\ lines[1] = LineDisabledBogus
          /\ reparsed.kind = "error"
          /\ steps = <<>>

\* C15: a logical line that is the disable marker with an empty or
\* whitespace-only remainder yields 'no step': parse_line returns neither a
\* step nor a recognition error, and parse_text adds nothing to its step
\* list or its error list.
C15_BareMarkerIsNoStep ==
    (pc = "line_parsed" /\ IsMarked(lines[1]) /\ AllSpace(Remainder(lines[1]))) =>
        /\ reparsed = NoStep
        /\ parse_state.steps = <<>>
        /\ parse_state.errors = <<>>

(***************************************************************************)
(* Properties of the registry                                              *)
(***************************************************************************)
\* e is a Step element carrying the registry id and name of the kind
RegisteredStep(e, step_type) ==
    /\ e.tag = "Step"
    /\ AttrGet(e, "id", <<>>) = <<STEP_DEFS[step_type].id>>
    /\ AttrGet(e, "name", <<>>) = STEP_DEFS[step_type].name

\* C16: for every kind in STEP_DEFS, and hence for every step the
\* recognizer can return, step_to_xml returns a Step element carrying that
\* kind's registry id and name, never the 'Unknown step' placeholder.
C16_EncodeNeverUnknown ==
    pc = "encoded" =>
        /\ steps[1].step_type \in DOMAIN STEP_DEFS
        /\ step_to_xml(steps[1]) # UnknownStep(steps[1].step_type)
        /\ RegisteredStep(step_to_xml(steps[1]), steps[1].step_type)
        /\ RegisteredStep(xml.kids[1], steps[1].step_type)

\* C16 away from the failing kind: the same for every kind but set_field.
C16_OtherKindsRegistered ==
    (pc = "encoded" /\ steps[1].step_type # "set_field") =>
        /\ steps[1].step_type \in DOMAIN STEP_DEFS
        /\ RegisteredStep(step_to_xml(steps[1]), steps[1].step_type)
        /\ RegisteredStep(xml.kids[1], steps[1].step_type)

(***************************************************************************)
(* Properties of the parameter split                                       *)
(***************************************************************************)
RECURSIVE TopLevelFrom(_, _, _, _, _, _, _)
\* The split the grammar describes: at every semicolon outside all
\* double-quoted strings and outside all parentheses and brackets, a
\* backslash taking the next character literally
TopLevelFrom(s, k, current, in_quote, escape, depth, parts) ==
    IF k > Len(s) THEN Append(parts, current)
    ELSE IF escape
    THEN TopLevelFrom(s, k + 1, Append(current, s[k]), in_quote, FALSE, depth, parts)
    ELSE IF s[k] = "\\"
    THEN TopLevelFrom(s, k + 1, Append(current, s[k]), in_quote, TRUE, depth, parts)
    ELSE IF s[k] = "\""
    THEN TopLevelFrom(s, k + 1, Append(current, s[k]), ~in_quote, FALSE, depth, parts)
    ELSE IF in_quote
    THEN TopLevelFrom(s, k + 1, Append(current, s[k]), in_quote, FALSE, depth, parts)
    ELSE IF s[k] \in {"(", "["}
    THEN TopLevelFrom(s, k + 1, Append(current, s[k]), in_quote, FALSE, depth + 1, parts)
    ELSE IF s[k] \in {")", "]"}
    THEN TopLevelFrom(s, k + 1, Append(current, s[k]), in_quote, FALSE, depth - 1, parts)
    ELSE IF s[k] = ";" /\ depth = 0
    THEN TopLevelFrom(s, k + 1, <<>>, in_quote, FALSE, depth, Append(parts, current))
    ELSE TopLevelFrom(s, k + 1, Append(current, s[k]), in_quote, FALSE, depth, parts)

TopLevelSplit(inner) == StripAll(TopLevelFrom(inner, 1, <<>>, FALSE, FALSE, 0, <<>>))

\* A parameter without its label
Unlabel(part) ==
    IF Len(part) >= 1 /\ part[1] \in {"Value:", "Target:", "URL:"}
    THEN strip(Tail(part)) ELSE part

MultiParamKinds ==
    {"show_custom_dialog", "perform_script", "insert_from_url",
     "set_field", "set_field_by_name", "set_variable"}

SplitParamsKinds == {"show_custom_dialog", "perform_script", "insert_from_url"}

\* The parameters the recognizer gave the step, in the order of the grammar
ParamValues(step) ==
    CASE step.step_type = "set_variable" -> <<step.params.name, step.params.value>>
      [] step.step_type = "set_field_by_name" -> <<step.params.target, step.params.value>>
      [] step.step_type = "set_field" -> <<step.params.field, step.params.value>>
      [] step.step_type = "perform_script" ->
           <<step.params.script_name>>
           \o (IF step.params.parameter = <<>> THEN <<>> ELSE <<step.params.parameter>>)
      [] step.step_type = "show_custom_dialog" ->
           <<step.params.title, step.params.message>> \o step.params.buttons
      [] step.step_type = "insert_from_url" -> <<step.params.target, step.params.url>>
      [] OTHER -> <<>>

\* The text between `[ ` and ` ]` of a line keyword [ inner ]
Inner(line) == SubSeq(line, 5, Len(line) - 2)

IsBracketLine(line) == Len(line) >= 6 /\ line = Bracket(line[1], Inner(line))

\* The parameters of the step are the top-level parts of the list
SplitAtTopLevel(line, step) ==
    ParamValues(step) =
        [k \in 1..Len(TopLevelSplit(Inner(line))) |->
            Unlabel(TopLevelSplit(Inner(line))[k])]

\* C17: the recognizer splits a bracketed parameter list at every semicolon
\* that is outside all double-quoted strings and outside all nested
\* parentheses and brackets, and nowhere else, for every kind with more
\* than one parameter.
C17_SplitsAtTopLevelSemicolons ==
    (pc = "recognized" /\ IsBracketLine(lines[1]) /\ IsStep(reparsed)
        /\ reparsed.step.step_type \in MultiParamKinds) =>
        SplitAtTopLevel(lines[1], reparsed.step)

\* C17 where it holds: Set Variable, and the lists of the pool without a
\* quote inside parentheses for the kinds that use _split_params.
C17_SetVariableSplitsAtTopLevel ==
    (pc = "recognized" /\ IsBracketLine(lines[1]) /\ IsStep(reparsed)
        /\ \/ reparsed.step.step_type = "set_variable"
           \/ /\ reparsed.step.step_type \in SplitParamsKinds
              /\ lines[1][5] # "f") =>
        SplitAtTopLevel(lines[1], reparsed.step)

(***************************************************************************)
(* Properties of the two scanners                                          *)
(***************************************************************************)
\* The splitter ended at the depths the balancer returned
SameDepths ==
    /\ reparsed.scan.depth_paren = reparsed.deltas[1]
    /\ reparsed.scan.depth_bracket = reparsed.deltas[2]

\* C25: for every string, _split_params and _count_delimiters classify each
\* character identically as escaped, inside a quoted run or a counted
\* delimiter: a double quote toggles the quote state in both whenever it is
\* unescaped, so the splitter's final paren and bracket depths equal the
\* deltas the balancer returns for the same string.
C25_SplitterAgreesWithBalancer == pc = "split" => SameDepths

\* C25 away from the failing inputs: the same for strings without
\* parentheses.
C25_AgreeWithoutParentheses ==
    (pc = "split" /\ \A k \in 1..Len(lines[1]) : lines[1][k] \notin {"(", ")"}) =>
        SameDepths

(***************************************************************************)
(* Properties of the decompiler's indentation                              *)
(***************************************************************************)
Decrements(step_type) == step_type \in {"end_if", "end_loop", "else", "else_if"}

Increments(step_type) == step_type \in {"if", "else_if", "else", "loop"}

\* The level a line of the kind renders at when the counter is at counter
LevelAt(step_type, counter) ==
    IF Decrements(step_type) THEN (IF counter >= 1 THEN counter - 1 ELSE 0)
    ELSE counter

RECURSIVE Levels(_, _, _)
\* The levels the steps from the k-th on render at
Levels(ss, k, counter) ==
    IF k > Len(ss) THEN <<>>
    ELSE <<LevelAt(ss[k].step_type, counter)>>
         \o Levels(ss, k + 1,
                   LevelAt(ss[k].step_type, counter)
                   + (IF Increments(ss[k].step_type) THEN 1 ELSE 0))

RECURSIVE Indentation(_)
\* The number of spaces a rendered line begins with
Indentation(line) ==
    IF Len(line) > 0 /\ line[1] = " " THEN 1 + Indentation(Tail(line)) ELSE 0

\* C18: the decompiler keeps one non-negative indentation counter, decrements
\* it (floor zero) before rendering an end_if, end_loop, else or else_if
\* line, renders the line at the decremented level, and increments it after
\* an if, else_if, else or loop line; so an else or else_if line renders at
\* the indentation of its if and the body below it one level deeper.
C18_IndentationCounter ==
    (pc = "decompiled" /\ Len(steps) > 0) =>
        /\ Len(Split(decoded, "\n")) = Len(steps)
        /\ \A k \in 1..Len(steps) :
              /\ Levels(steps, 1, 0)[k] >= 0
              /\ Indentation(Split(decoded, "\n")[k]) = 4 * Levels(steps, 1, 0)[k]
              /\ strip(Split(decoded, "\n")[k]) = strip(lines[k])

\* If, Else, a body line and End If came back with Else at the level of If
\* and the body one level deeper.
C18_Witness ==
    /\ pc = "decompiled"
    /\ lines = <<LineIf, LineElse, LinePerformFind, LineEndIf>>
    /\ decoded = Join(<<LineIf, LineElse, Pad(1) \o LinePerformFind, LineEndIf>>,
                      <<"\n">>)

(***************************************************************************)
(* Properties of decompile_xml on malformed documents                      *)
(***************************************************************************)
\* Some element of the document holds what no well-formed document holds
Malformed(doc) == doc.tag = "!--" \/ ~WellFormed(doc)

\* C19: on malformed XML decompile_xml returns the single XML-parse-error
\* value and no decompiled line at all; on well-formed XML it never returns
\* that value.
C19_ParseErrorOnlyWhenMalformed ==
    pc = "decompiled" =>
        /\ Malformed(xml) => decoded = ParseErrorText
        /\ ~Malformed(xml) =>
              /\ decoded # ParseErrorText
              /\ \A k \in 1..Len(decoded) : decoded[k] # "XML Parse Error:"

\* A document whose second element holds a bare & in an attribute came back
\* as the parse error alone, or a well-formed one as its lines.
C19_Witness ==
    /\ pc = "decompiled"
    /\ Len(xml.kids) = 2
    /\ xml.kids[1] = ElemUnknownId
    /\ xml.kids[2] = ElemBadAttr
    /\ decoded = ParseErrorText

(***************************************************************************)
(* Properties of the decode key                                            *)
(***************************************************************************)
\* The kind an element decodes as, (id, display name) being the key where
\* the decompiler tests the name
DecodedKind(e) ==
    CASE AttrGet(e, "id", <<>>) = <<"68">> -> "if"
      [] AttrGet(e, "id", <<>>) = <<"125">>
            /\ AttrGet(e, "name", <<>>) = <<"Else If">> -> "else_if"
      [] AttrGet(e, "id", <<>>) = <<"69">> -> "else"
      [] AttrGet(e, "id", <<>>) = <<"70">>
            /\ AttrGet(e, "name", <<>>) = <<"End If">> -> "end_if"
      [] AttrGet(e, "id", <<>>) = <<"71">>
            /\ AttrGet(e, "name", <<>>) = <<"Loop">> -> "loop"
      [] AttrGet(e, "id", <<>>) = <<"73">> -> "end_loop"
      [] OTHER -> "other"

RECURSIVE KindIndents(_, _, _)
\* The indentation of every rendered line when the counter is driven by the
\* decoded kind alone; an element renders as many lines as its text has
KindIndents(elems, k, counter) ==
    IF k > Len(elems) THEN <<>>
    ELSE [j \in 1..Len(decompile_body(elems[k]).lines) |->
             4 * LevelAt(DecodedKind(elems[k]), counter)]
         \o KindIndents(elems, k + 1,
                LevelAt(DecodedKind(elems[k]), counter)
                + (IF Increments(DecodedKind(elems[k])) THEN 1 ELSE 0))

IndentsOf(text_lines) == [k \in 1..Len(text_lines) |-> Indentation(text_lines[k])]

\* The decompiled lines stand at the indentation the decoded kinds give
KindDrivenIndentation ==
    IF Len(Iter(XmlParse(xml).root)) = 0 THEN decoded = <<>>
    ELSE IndentsOf(Split(decoded, "\n")) = KindIndents(Iter(XmlParse(xml).root), 1, 0)

\* The element has the id of Else If or End If under another name
NameMismatch(e) ==
    \/ AttrGet(e, "id", <<>>) = <<"125">> /\ AttrGet(e, "name", <<>>) # <<"Else If">>
    \/ AttrGet(e, "id", <<>>) = <<"70">> /\ AttrGet(e, "name", <<>>) # <<"End If">>

\* C23: the decompiler's indentation counter is driven purely by the decoded
\* instruction kind, (id, display name) being the decode key: an element
\* that does not decode as end_if, end_loop, else or else_if, such as id 125
\* under a name other than 'Else If' or id 70 under a name other than
\* 'End If', leaves the indentation counter unchanged.
C23_CounterDrivenByDecodedKind ==
    (pc = "decompiled" /\ ~Malformed(xml)) => KindDrivenIndentation

\* C23 away from the failing elements: the same for documents that hold no
\* element with the id of Else If or End If under another name.
C23_MatchingNamesKindDriven ==
    (pc = "decompiled" /\ ~Malformed(xml)
        /\ \A k \in 1..Len(xml.kids) : ~NameMismatch(xml.kids[k])) =>
        KindDrivenIndentation

(***************************************************************************)
(* Properties of the enable flip                                           *)
(***************************************************************************)
\* The element with the enable attribute of the Step tag itself set to
\* "False" and nothing else changed
FlipOwnEnable(e) ==
    IF e.tag = "Step"
    THEN [e EXCEPT !.attrs =
            [k \in 1..Len(e.attrs) |->
                IF e.attrs[k].n = "enable" THEN At("enable", <<"False">>)
                ELSE e.attrs[k]]]
    ELSE e

\* C20: for every step, generate_xml emits for the step with enabled=false
\* exactly the element it emits for the same step with enabled=true except
\* that the Step element's own enable attribute is "False"; no other
\* attribute, child element or text differs, also when the text itself
\* holds enable="True".
C20_DisabledFlipsOwnEnable ==
    (pc = "encoded" /\ ~steps[1].enabled) =>
        /\ xml.kids[1] = FlipOwnEnable(step_to_xml([steps[1] EXCEPT !.enabled = TRUE]))
        /\ xml_string(xml.kids[1]) = step_string(steps[1])
        /\ step_string(steps[1]) =
               xml_string(FlipOwnEnable(step_to_xml([steps[1] EXCEPT !.enabled = TRUE])))
        /\ xml.kids[1].kids = generate_xml(<<[steps[1] EXCEPT !.enabled = TRUE]>>).kids[1].kids
        /\ xml.kids[1].text = generate_xml(<<[steps[1] EXCEPT !.enabled = TRUE]>>).kids[1].text

\* `// If [ enable="True" ]` was encoded with the Step's enable "False" and
\* the calculation still enable="True".
C20_Witness ==
    /\ pc = "encoded"
    /\ lines = <<<<"//", " ">> \o LineIfEnable>>
    /\ ~steps[1].enabled
    /\ AttrGet(xml.kids[1], "enable", <<>>) = <<"False">>
    /\ xml.kids[1].kids = <<Calculation(EnableTrue)>>

(***************************************************************************)
(* Properties of parse_text                                                *)
(***************************************************************************)
\* The sum of the delimiter deltas of raw lines a..b
RECURSIVE DepthOver(_, _, _)
DepthOver(ls, a, b) ==
    IF a > b THEN <<0, 0>>
    ELSE LET d == _count_delimiters(strip(ls[a]))
             r == DepthOver(ls, a + 1, b)
         IN  <<d[1] + r[1], d[2] + r[2]>>

StillOpen(d) == d[1] > 0 \/ d[2] > 0

\* While a statement is open, it holds exactly the raw lines from the one it
\* started on to the last one read, and it was open after each of them.
OpenStatementAbsorbs ==
    (pc = "parse" /\ Len(parse_state.accumulator) > 0) =>
        LET s == parse_state.start_line
            n == Len(lines)
        IN  /\ s \in 1..n
            /\ Len(strip(lines[s])) > 0
            /\ parse_state.accumulator = SubSeq(lines, s, n)
            /\ \A e \in s..n : StillOpen(DepthOver(lines, s, e))
            /\ <<parse_state.paren_depth, parse_state.bracket_depth>> =
                   DepthOver(lines, s, n)

\* A raw line read while a statement is open is absorbed; if both depths are
\* then <= 0 the statement is recognized as a whole, under the number of the
\* raw line it started on.
AbsorbThenRecognize ==
    (pc = "parse" /\ pc' = "parse" /\ lines' # lines
        /\ Len(parse_state.accumulator) > 0) =>
        LET s == parse_state.start_line
            n == Len(lines')
            r == parse_line(Logical(SubSeq(lines', s, n)), s)
        IN  IF StillOpen(DepthOver(lines', s, n))
            THEN /\ parse_state'.accumulator = SubSeq(lines', s, n)
                 /\ parse_state'.steps = parse_state.steps
                 /\ parse_state'.errors = parse_state.errors
            ELSE /\ parse_state'.accumulator = <<>>
                 /\ r.kind = "step" =>
                       /\ parse_state'.steps = Append(parse_state.steps, r.step)
                       /\ parse_state'.steps[Len(parse_state'.steps)].line_num = s
                 /\ r.kind = "error" =>
                       /\ parse_state'.errors = Append(parse_state.errors, r.error)
                       /\ parse_state'.steps = parse_state.steps
                 /\ r.kind = "none" => parse_state'.steps = parse_state.steps

\* `Set Variable [ $x ; Value: (1+` followed by `2) ]`
TwoLineSetVariable ==
    (pc = "parsed" /\ lines = <<LineSetVarOpen, LineClose>>) =>
        /\ steps = <<ParsedStep("set_variable",
                        [name |-> <<"$x">>, value |-> <<"(", "1+", " ", "2", ")">>],
                        1, TRUE)>>
        /\ parse_state.errors = <<>>

\* C10: a statement whose parentheses or brackets are open at the end of a
\* raw line absorbs every following raw line until both running depths are
\* <= 0 and is then recognized as one step numbered by the raw line it
\* started on; the two-line Set Variable example parses as one set_variable
\* step with value `(1+ 2)` on line 1.
C10_OpenStatementAbsorbsLines ==
    /\ [](OpenStatementAbsorbs /\ TwoLineSetVariable)
    /\ [][AbsorbThenRecognize]_vars

\* `If [ f(`, a blank line, `  a` and `2) ]` became one if step on line 1.
C10_Witness ==
    /\ pc = "parsed"
    /\ lines = <<LineIfOpen, LineBlank, LineAtom, LineClose>>
    /\ Len(steps) = 1
    /\ steps[1].step_type = "if"
    /\ steps[1].line_num = 1
    /\ steps[1].params.calc = <<"f", "(", " ", "a", " ", "2", ")">>

RECURSIVE SegmentEnd(_, _, _)
\* The raw line on which the statement begun on line s ends: the first one
\* after which neither depth is above zero, or the last line of the input
SegmentEnd(ls, s, e) ==
    IF e >= Len(ls) \/ ~StillOpen(DepthOver(ls, s, e)) THEN e
    ELSE SegmentEnd(ls, s, e + 1)

RECURSIVE Segments(_, _)
\* The logical lines of the raw lines from the k-th on, each as the range
\* of raw lines it is made of; a blank line outside a statement is in none
Segments(ls, k) ==
    IF k > Len(ls) THEN <<>>
    ELSE IF Len(strip(ls[k])) = 0 THEN Segments(ls, k + 1)
    ELSE <<[from |-> k, to |-> SegmentEnd(ls, k, k)]>>
         \o Segments(ls, SegmentEnd(ls, k, k) + 1)

\* The statement of the range is still open at its last line
OpenSegment(ls, seg) == StillOpen(DepthOver(ls, seg.from, seg.to))

\* What the recognizer makes of each of the first n ranges
SegmentResults(ls, segs, n) ==
    [k \in 1..n |->
        parse_line(Logical(SubSeq(ls, segs[k].from, segs[k].to)), segs[k].from)]

\* The steps among the results, in order
StepsAmong(results) == [k \in 1..Len(results) |-> results[k].step]

\* The recognition errors among the results, in order
ErrorsAmong(results) == [k \in 1..Len(results) |-> results[k].error]

\* The steps and errors recorded are those of the results, in order
Recorded(recorded_steps, recorded_errors, results) ==
    /\ recorded_steps = StepsAmong(SelectSeq(results, LAMBDA r : r.kind = "step"))
    /\ recorded_errors = ErrorsAmong(SelectSeq(results, LAMBDA r : r.kind = "error"))

\* The same with the comments among the steps merged
RecordedMerged(recorded_steps, recorded_errors, results) ==
    /\ recorded_steps =
          _merge_comments(StepsAmong(SelectSeq(results, LAMBDA r : r.kind = "step")))
    /\ recorded_errors = ErrorsAmong(SelectSeq(results, LAMBDA r : r.kind = "error"))

\* While reading: the ranges that are closed have been recognized, the open
\* one (the last, if any) is the accumulation, and the running depths are
\* those of the open one alone, zero when there is none
ReadAsSegments(ls, segs, st) ==
    IF Len(segs) > 0 /\ OpenSegment(ls, segs[Len(segs)])
    THEN /\ Recorded(st.steps, st.errors, SegmentResults(ls, segs, Len(segs) - 1))
         /\ st.accumulator = SubSeq(ls, segs[Len(segs)].from, Len(ls))
         /\ segs[Len(segs)].to = Len(ls)
         /\ st.start_line = segs[Len(segs)].from
         /\ <<st.paren_depth, st.bracket_depth>> =
                DepthOver(ls, segs[Len(segs)].from, Len(ls))
    ELSE /\ Recorded(st.steps, st.errors, SegmentResults(ls, segs, Len(segs)))
         /\ st.accumulator = <<>>
         /\ st.paren_depth = 0
         /\ st.bracket_depth = 0

\* At the end of input: every range has been recognized, the open one too
FinishedAsSegments(ls, segs, st) ==
    /\ RecordedMerged(st.steps, st.errors, SegmentResults(ls, segs, Len(segs)))
    /\ st.accumulator = <<>>
    /\ st.paren_depth = 0
    /\ st.bracket_depth = 0

\* The ranges are disjoint, in input order, begin on a non-blank line, and
\* every non-blank raw line is in exactly one of them
IsPartition(ls, segs) ==
    /\ \A k \in 1..Len(segs) :
          /\ 1 <= segs[k].from /\ segs[k].from <= segs[k].to /\ segs[k].to <= Len(ls)
          /\ Len(strip(ls[segs[k].from])) > 0
          /\ k > 1 => segs[k - 1].to < segs[k].from
    /\ \A i \in 1..Len(ls) :
          Len(strip(ls[i])) > 0 =>
              Cardinality({k \in 1..Len(segs) :
                              segs[k].from <= i /\ i <= segs[k].to}) = 1

\* C26: in parse_text the logical lines partition the non-blank raw lines in
\* input order: every non-blank raw line contributes to exactly one logical
\* line, blank lines outside an open accumulation start and end nothing,
\* blank lines inside one are absorbed without terminating it, the running
\* depths are reset to zero after each flush, and an accumulation still
\* open at end of input is flushed rather than dropped.
C26_LogicalLinesPartitionInput ==
    /\ pc \in {"parse", "parsed"} => IsPartition(lines, Segments(lines, 1))
    /\ pc = "parse" => ReadAsSegments(lines, Segments(lines, 1), parse_state)
    /\ pc = "parsed" => FinishedAsSegments(lines, Segments(lines, 1), parse_state)

\* A blank line, `If [ f(`, a blank line, `2) ]` and `If [ f(`: the first
\* blank started nothing, the second was absorbed into the If of line 2,
\* and the statement left open on line 5 was flushed at the end of input,
\* as a recognition error.
C26_Witness ==
    /\ pc = "parsed"
    /\ lines = <<LineBlank, LineIfOpen, LineBlank, LineClose, LineIfOpen>>
    /\ Len(steps) = 1
    /\ steps[1].step_type = "if" /\ steps[1].line_num = 2
    /\ Len(parse_state.errors) = 1
    /\ parse_state.errors[1].line = 5
    /\ parse_state.accumulator = <<>>

(***************************************************************************)
(* The validator's stack and the decompiler's counter                      *)
(***************************************************************************)
\* The number of lines the decompiler renders for the step's encoding: none
\* for an encoding that is no Step element
RenderedLines(encoded) ==
    IF encoded.tag # "Step" THEN 0
    ELSE Len(decompile_body(ParseElement(encoded)).lines)

RECURSIVE DepthIndents(_, _, _)
\* The indentation of every rendered line when each step from the k-th on
\* stands at the depth of the validator's stack before it, a closing or
\* middle line one level less
DepthIndents(ss, k, stack) ==
    IF k > Len(ss) THEN <<>>
    ELSE [j \in 1..RenderedLines(step_to_xml(ss[k])) |->
             4 * (IF Decrements(ss[k].step_type) THEN Len(stack) - 1 ELSE Len(stack))]
         \o DepthIndents(ss, k + 1, validate_step(ss[k], stack, <<>>).stack)

\* The lines of the decompiled text stand at the validator's depths
RendersAtValidatorDepth(ss, text) ==
    IF Len(DepthIndents(ss, 1, <<>>)) = 0 THEN text = <<>>
    ELSE IndentsOf(Split(text, "\n")) = DepthIndents(ss, 1, <<>>)

\* The counter never took the floor and ended at zero
CounterStaysExact(trace) ==
    /\ \A k \in 1..Len(trace) : ~trace[k].floored
    /\ Len(trace) > 0 => trace[Len(trace)].after = 0

\* C28: for every step sequence that validate_structure accepts, decompiling
\* its encoding never hits the floor-at-zero clamp, renders each if, loop or
\* ordinary line at an indentation equal to the validator's block-stack
\* depth before that step and each else, else_if, end_if or end_loop line at
\* that depth minus one, and ends with the indentation counter at zero;
\* disabled steps count exactly like enabled ones in both.
C28_IndentationRefinesValidatorDepth ==
    pc = "decompiled" =>
        /\ is_valid(validate_structure(steps).errors)
        /\ RendersAtValidatorDepth(steps, decoded)
        /\ CounterStaysExact(indent_counter(Iter(XmlParse(written).root), 1, 0))

\* `If [ a ]`, `// Loop`, `// End Loop`, `End If` was accepted and came back
\* with the disabled Loop and End Loop one level inside the If.
C28_Witness ==
    /\ pc = "decompiled"
    /\ lines = <<LineIf, LineDisabledLoop, LineDisabledEndLoop, LineEndIf>>
    /\ errors = <<>>
    /\ decoded = Join(<<LineIf, Pad(1) \o LineDisabledLoop,
                        Pad(1) \o LineDisabledEndLoop, LineEndIf>>, <<"\n">>)

====
